---- MODULE Spec2Model ----
(***************************************************************************)
(* Download-and-cache pipeline of the launcher: CacheManager (content      *)
(* addressed store with LRU eviction), ThreadPool (worker pool with a FIFO *)
(* and a priority queue) and DownloadManager (coordinator and transfer     *)
(* executor).  The specifications share the variables:                     *)
(*   SpecCache : the CacheManager alone, driven by its public calls;       *)
(*   SpecPool  : the ThreadPool alone, workers and a waitAll() caller      *)
(*               interleaved at the granularity of the pool's mutex;       *)
(*   SpecDM    : the DownloadManager on top of the pool and the cache;     *)
(*   SpecDMControl : the DownloadManager with cancel, pause and shutdown.  *)
(***************************************************************************)
EXTENDS Integers, Sequences, FiniteSets, TLC

(***************************************************************************)
(* Bounds of the model.                                                    *)
(***************************************************************************)
MaxFileSize == 2
MaxCacheSize == 3
MaxTotalSize == 5
MaxClock == 3
MaxAccessCount == 2
NumWorkers == 2
MaxJobs == 2
MaxPriority == 2
MaxTasks == 2
MaxRetryCount == 1

Hashes == {"aa01", "bb02", "cc03"}
FileSizes == 1..MaxFileSize
CacheSizes == 1..MaxCacheSize
NoHash == ""
Workers == 1..NumWorkers
Jobs == 1..MaxJobs
Priorities == 1..MaxPriority
NoJob == 0
Tasks == 1..MaxTasks
NoTask == 0
RetryCounts == 0..MaxRetryCount
DMHash == "aa01"
DMFileSize == 1
DefaultPriority == 0
DefaultMaxConcurrent == 10
RetryDelay == 1000

MaxSubscriptions == 2
NumEmitters == 2
MaxEmitDepth == 2
MaxEmits == 3
MaxCalls == 3
SubscriptionIds == 0..(MaxSubscriptions - 1)
Emitters == 1..NumEmitters

VARIABLES
    \* ---- CacheManager (CacheManager.hpp:194-204)
    m_entries,        \* hash -> [size, lastAccess, accessCount]
    m_currentSize,
    m_maxSize,
    cm_initialized,   \* CacheManager::m_initialized
    cacheFiles,       \* hashes whose backing file exists under m_cachePath
    indexFile,        \* index.json: hash -> [size, accessCount]
    now,              \* std::chrono::system_clock::now()
    lastCacheOp,      \* the last CacheManager call, what it returned and, for
                      \* add and setMaxSize, the entries it evicted, in order
    \* ---- ThreadPool (ThreadPool.hpp:254-263)
    m_tasks,          \* std::queue: sequence of job ids
    m_priorityTasks,  \* std::priority_queue: set of [job, priority]
    m_stop,
    m_activeJobs,
    workerPc,         \* where each worker thread is in workerLoop()
    workerTask,       \* the job a worker holds in its local `task`
    jobState,         \* job id -> "none" | "queued" | "taken" | "running" | "done"
    nextJob,          \* jobs accepted so far
    waiterPc,         \* the thread calling waitAll()
    waitSnapshot,     \* jobs accepted before the current waitAll() call
    submitResult,     \* how the last submit / submitPriority call ended
    jobKind,          \* job id -> the queue it was put on and its priority
    future,           \* job id -> shared state of its packaged_task / std::future
    lastGet,          \* how the submitter's last future.get() ended
    \* ---- DownloadManager (DownloadManager.hpp:255-280)
    m_queue,          \* std::priority_queue<QueuedDownload>: the task ids in it
    m_activeTasks,    \* task id -> the map's own copy of the task: [cancelled]
    m_taskProgress,   \* task id -> progress in percent (-100 for -1.0f)
    m_totalTasks,
    m_completedTasks,
    m_running,
    m_paused,
    dm_initialized,   \* DownloadManager::m_initialized
    m_maxConcurrent,
    m_nextTaskId,
    retryCount,       \* Config "downloads.retryCount"
    task,             \* task id -> [sha1, hasCallback, priority] given to addDownload
    jobTask,          \* pool job -> the task id its closure captured
    taskPc,           \* where the task is in addDownload / processDownload
    attempt,          \* executeDownload's loop variable, per task
    error,            \* task.error of the copy processDownload works on
    success,          \* executeDownload's return value
    cancelled,        \* task.cancelled of the copy processDownload works on
    destination,      \* task id -> whether the file task.destination exists
    hist,             \* per task: what has been observed from outside
    dmWaiterPc,       \* the thread calling waitForAll()
    mutexOwner,       \* "m_mutex" (DownloadManager) and "cacheMutex"
                      \* (CacheManager::m_mutex) -> the thread holding it
    lockPc,           \* thread -> the lock operations of the call it is in,
                      \* and how many of them it has performed
    \* ---- EventBus (EventBus.hpp:220-222), for one event name
    m_subscribers,    \* m_subscribers[event]: sequence of subscription ids
    subscription,     \* id -> [kind, active]: how the entry was registered
                      \* ("none", "plain", "once") and Subscription::m_active
    m_nextId,
    calls,            \* id -> how often the user's callback was invoked
    emitStack,        \* emitter thread -> its nested emit() calls, innermost
                      \* first: [callbacks still to call, pc]
    emitCount,        \* emit() calls made so far
    unsubscribing     \* ids a client's unsubscribe() has cancelled and not
                      \* yet erased

busVars == <<m_subscribers, subscription, m_nextId, calls, emitStack,
             emitCount, unsubscribing>>

cacheVars == <<m_entries, m_currentSize, m_maxSize, cm_initialized,
               cacheFiles, indexFile, now, lastCacheOp>>

poolVars == <<m_tasks, m_priorityTasks, m_stop, m_activeJobs, workerPc,
              workerTask, jobState, nextJob, waiterPc, waitSnapshot,
              submitResult, jobKind, future, lastGet>>

dmVars == <<m_queue, m_activeTasks, m_taskProgress, m_totalTasks,
            m_completedTasks, m_running, m_paused, dm_initialized,
            m_maxConcurrent,
            m_nextTaskId, retryCount, task, jobTask, taskPc, attempt, error,
            success, cancelled, destination, hist, dmWaiterPc,
            mutexOwner, lockPc>>

vars == <<m_entries, m_currentSize, m_maxSize, cm_initialized,
          cacheFiles, indexFile, now, lastCacheOp,
          m_tasks, m_priorityTasks, m_stop, m_activeJobs, workerPc,
          workerTask, jobState, nextJob, waiterPc, waitSnapshot, submitResult,
          jobKind, future, lastGet,
          m_queue, m_activeTasks, m_taskProgress, m_totalTasks,
          m_completedTasks, m_running, m_paused, dm_initialized,
            m_maxConcurrent,
          m_nextTaskId, retryCount, task, jobTask, taskPc, attempt, error,
          success, cancelled, destination, hist, dmWaiterPc,
          mutexOwner, lockPc,
          m_subscribers, subscription, m_nextId, calls, emitStack,
          emitCount, unsubscribing>>

(***************************************************************************)
(* CacheManager                                                            *)
(***************************************************************************)
EmptyMap == [h \in {} |-> 0]

Without(f, h) == [x \in (DOMAIN f) \ {h} |-> f[x]]

With(f, h, v) == [x \in (DOMAIN f) \cup {h} |-> IF x = h THEN v ELSE f[x]]

RECURSIVE SumSizes(_)
SumSizes(e) ==
    IF DOMAIN e = {} THEN 0
    ELSE LET h == CHOOSE x \in DOMAIN e : TRUE
         IN  e[h].size + SumSizes(Without(e, h))

\* system_clock::now(): each reading is later than the one before, up to
\* MaxClock; from there on readings coincide (two calls within one tick).
ClockReadings == {IF now < MaxClock THEN now + 1 ELSE now}

\* saveIndex() writing every access count as 0.
saveIndexWithoutCounts(entries) ==
    [h \in DOMAIN entries |-> [size |-> entries[h].size, accessCount |-> 0]]

\* saveIndex(): every in-memory entry with its size and access count
\* (lastAccess is not written).
saveIndex(entries) ==
    [h \in DOMAIN entries |->
        [size |-> entries[h].size, accessCount |-> entries[h].accessCount]]

\* getLRUEntry() choosing the entry used last.
getMRUEntry(entries) ==
    {h \in DOMAIN entries :
        \A g \in DOMAIN entries : entries[h].lastAccess >= entries[g].lastAccess}

\* getLRUEntry(): the first entry, in the map's iteration order, whose
\* lastAccess is strictly smaller than all seen before it: some entry of
\* minimal lastAccess.
getLRUEntry(entries) ==
    {h \in DOMAIN entries :
        \A g \in DOMAIN entries : entries[h].lastAccess <= entries[g].lastAccess}

\* evict() that removes nothing.
evictNone(c, max, requiredSpace) == {c}

\* evict() with a loop that runs until the store is empty.
RECURSIVE evictAll(_, _, _)
evictAll(c, max, requiredSpace) ==
    IF DOMAIN c.entries # {}
    THEN UNION { evictAll([entries |-> Without(c.entries, lru),
                           cur     |-> c.cur - c.entries[lru].size,
                           files   |-> c.files \ {lru},
                           order   |-> Append(c.order,
                                              [hash |-> lru,
                                               lastAccess |-> c.entries[lru].lastAccess,
                                               size |-> c.entries[lru].size])],
                          max, requiredSpace)
                 : lru \in getLRUEntry(c.entries) }
    ELSE {c}

\* evict(requiredSpace) on the cache state c = [entries, cur, files, order]
\* with limit max: the set of states the loop can end in; `order` lists the
\* entries in the order the loop erased them.
RECURSIVE evict(_, _, _)
evict(c, max, requiredSpace) ==
    IF c.cur + requiredSpace > max /\ DOMAIN c.entries # {}
    THEN UNION { evict([entries |-> Without(c.entries, lru),
                        cur     |-> c.cur - c.entries[lru].size,
                        files   |-> c.files \ {lru},
                        order   |-> Append(c.order,
                                           [hash |-> lru,
                                            lastAccess |-> c.entries[lru].lastAccess,
                                            size |-> c.entries[lru].size])],
                       max, requiredSpace)
                 : lru \in getLRUEntry(c.entries) }
    ELSE {c}

CacheState == [entries |-> m_entries, cur |-> m_currentSize, files |-> cacheFiles,
               order |-> <<>>]

\* CacheManager::initialize(cachePath, maxSize), loadIndex() included; the
\* clock is read once per entry of the index, so not at all for an empty one.
loadIndex(t) ==
    /\ m_entries' =
          [h \in (DOMAIN m_entries) \cup (DOMAIN indexFile) |->
              IF h \in DOMAIN indexFile
              THEN [size |-> indexFile[h].size, lastAccess |-> t,
                    accessCount |-> indexFile[h].accessCount]
              ELSE m_entries[h]]
    /\ m_currentSize' = m_currentSize + SumSizes(indexFile)

initialize(maxSize) ==
    /\ m_currentSize + SumSizes(indexFile) <= MaxTotalSize
    /\ \E t \in (IF DOMAIN indexFile = {} THEN {now} ELSE ClockReadings) :
          /\ loadIndex(t)
          /\ now' = t
    /\ m_maxSize' = maxSize
    /\ cm_initialized' = TRUE
    /\ lastCacheOp' = [op |-> "initialize", hash |-> NoHash, ok |-> TRUE,
                        fresh |-> lastCacheOp.op = "construct" /\ lastCacheOp.saved,
                        old |-> IF lastCacheOp.op = "construct"
                                THEN lastCacheOp.old ELSE EmptyMap]
    /\ UNCHANGED <<cacheFiles, indexFile>>

\* CacheManager::shutdown()
shutdown ==
    /\ cm_initialized
    /\ indexFile' = saveIndex(m_entries)
    /\ cm_initialized' = FALSE
    /\ lastCacheOp' = [op |-> "shutdown", hash |-> NoHash, ok |-> TRUE]
    /\ UNCHANGED <<m_entries, m_currentSize, m_maxSize, cacheFiles, now>>

\* CacheManager::add(filePath, hash) for a source file of size fileSize
\* (0 stands for a source whose file_size() throws); copyOk is whether
\* copy_file succeeds.
add(hash, fileSize, copyOk) ==
    /\ m_currentSize + fileSize <= MaxTotalSize
    /\ IF ~cm_initialized \/ hash = NoHash \/ fileSize = 0
       THEN /\ lastCacheOp' = [op |-> "add", hash |-> hash, ok |-> FALSE,
                               size |-> fileSize, evicted |-> <<>>]
            /\ UNCHANGED <<m_entries, m_currentSize, m_maxSize, cm_initialized,
                           cacheFiles, indexFile, now>>
       ELSE \E c \in (IF m_currentSize + fileSize > m_maxSize
                      THEN evict(CacheState, m_maxSize, fileSize)
                      ELSE {CacheState}) :
              IF ~copyOk
              THEN /\ m_entries' = c.entries
                   /\ m_currentSize' = c.cur
                   /\ cacheFiles' = c.files
                   /\ lastCacheOp' = [op |-> "add", hash |-> hash, ok |-> FALSE,
                                      size |-> fileSize, evicted |-> c.order]
                   /\ UNCHANGED <<m_maxSize, cm_initialized, indexFile, now>>
              ELSE \E t \in ClockReadings :
                   /\ m_entries' = With(c.entries, hash,
                                        [size |-> fileSize, lastAccess |-> t,
                                         accessCount |-> 1])
                   /\ m_currentSize' = c.cur + fileSize
                   /\ cacheFiles' = c.files \cup {hash}
                   /\ indexFile' = saveIndex(m_entries')
                   /\ now' = t
                   /\ lastCacheOp' = [op |-> "add", hash |-> hash, ok |-> TRUE,
                                      size |-> fileSize, evicted |-> c.order]
                   /\ UNCHANGED <<m_maxSize, cm_initialized>>

\* CacheManager::has(hash)
has(hash) == hash \in DOMAIN m_entries

\* get() that counts the access without recording its time.
countAccess(e, t) == [e EXCEPT !.accessCount = @ + 1]

\* get(): the entry after a successful lookup at time t.
recordAccess(e, t) == [e EXCEPT !.lastAccess = t, !.accessCount = @ + 1]

\* CacheManager::get(hash); copyTo(hash, destination) is get() followed by
\* copy_file, which succeeds or throws (copyOk), and `op` names the call.
getEntry(hash, op, copyOk) ==
    IF hash \notin DOMAIN m_entries
    THEN /\ lastCacheOp' = [op |-> op, hash |-> hash, ok |-> FALSE]
         /\ UNCHANGED <<m_entries, m_currentSize, m_maxSize, cm_initialized,
                        cacheFiles, indexFile, now>>
    ELSE IF hash \notin cacheFiles
    THEN /\ m_entries' = Without(m_entries, hash)
         /\ lastCacheOp' = [op |-> op, hash |-> hash, ok |-> FALSE]
         /\ UNCHANGED <<m_currentSize, m_maxSize, cm_initialized,
                        cacheFiles, indexFile, now>>
    ELSE /\ m_entries[hash].accessCount < MaxAccessCount
         /\ \E t \in ClockReadings :
               /\ m_entries' = [m_entries EXCEPT
                                  ![hash] = recordAccess(@, t)]
               /\ now' = t
         /\ lastCacheOp' = [op |-> op, hash |-> hash, ok |-> copyOk]
         /\ UNCHANGED <<m_currentSize, m_maxSize, cm_initialized,
                        cacheFiles, indexFile>>

\* CacheManager::get(hash)
get(hash) == getEntry(hash, "get", TRUE)

\* CacheManager::copyTo(hash, destination)
copyTo(hash, copyOk) == getEntry(hash, "copyTo", copyOk)

\* CacheManager::remove(hash)
remove(hash) ==
    IF hash \notin DOMAIN m_entries
    THEN /\ lastCacheOp' = [op |-> "remove", hash |-> hash, ok |-> FALSE]
         /\ UNCHANGED <<m_entries, m_currentSize, m_maxSize, cm_initialized,
                        cacheFiles, indexFile, now>>
    ELSE /\ cacheFiles' = cacheFiles \ {hash}
         /\ m_currentSize' = m_currentSize - m_entries[hash].size
         /\ m_entries' = Without(m_entries, hash)
         /\ indexFile' = saveIndex(m_entries')
         /\ lastCacheOp' = [op |-> "remove", hash |-> hash, ok |-> TRUE]
         /\ UNCHANGED <<m_maxSize, cm_initialized, now>>

\* CacheManager::clear()
clear ==
    /\ cacheFiles' = {}
    /\ m_entries' = EmptyMap
    /\ m_currentSize' = 0
    /\ indexFile' = saveIndex(m_entries')
    /\ lastCacheOp' = [op |-> "clear", hash |-> NoHash, ok |-> TRUE]
    /\ UNCHANGED <<m_maxSize, cm_initialized, now>>

\* CacheManager::setMaxSize(maxSize)
setMaxSize(maxSize) ==
    /\ \E c \in (IF m_currentSize > maxSize
                 THEN evict(CacheState, maxSize, m_currentSize - maxSize)
                 ELSE {CacheState}) :
          /\ m_entries' = c.entries
          /\ m_currentSize' = c.cur
          /\ cacheFiles' = c.files
          /\ lastCacheOp' = [op |-> "setMaxSize", hash |-> NoHash, ok |-> TRUE,
                             evicted |-> c.order]
    /\ m_maxSize' = maxSize
    /\ UNCHANGED <<cm_initialized, indexFile, now>>

\* CacheManager::runMaintenance()
runMaintenance ==
    LET kept == {h \in DOMAIN m_entries : h \in cacheFiles}
        gone == (DOMAIN m_entries) \ kept
    IN  /\ m_entries' = [h \in kept |-> m_entries[h]]
        /\ m_currentSize' =
              m_currentSize - SumSizes([h \in gone |-> m_entries[h]])
        /\ indexFile' = saveIndex(m_entries')
        /\ lastCacheOp' = [op |-> "runMaintenance", hash |-> NoHash, ok |-> TRUE]
        /\ UNCHANGED <<m_maxSize, cm_initialized, cacheFiles, now>>

\* The operating system or the user removes a cached file behind the store.
ExternalDelete(hash) ==
    /\ hash \in cacheFiles
    /\ cacheFiles' = cacheFiles \ {hash}
    /\ lastCacheOp' = [op |-> "external", hash |-> hash, ok |-> TRUE]
    /\ UNCHANGED <<m_entries, m_currentSize, m_maxSize, cm_initialized,
                   indexFile, now>>

\* The CacheManager is destroyed and a fresh one is constructed for the same
\* directory: ~CacheManager() calls shutdown(), which saves the index if the
\* instance is initialized; the new object starts empty.  lastCacheOp keeps
\* what the old instance held and whether its last call was that shutdown.
Reconstruct ==
    /\ indexFile' = IF cm_initialized THEN saveIndex(m_entries) ELSE indexFile
    /\ m_entries' = EmptyMap
    /\ m_currentSize' = 0
    /\ m_maxSize' = 0
    /\ cm_initialized' = FALSE
    /\ lastCacheOp' = [op |-> "construct", hash |-> NoHash, ok |-> TRUE,
                        saved |-> cm_initialized \/ lastCacheOp.op = "shutdown",
                        old |-> m_entries]
    /\ UNCHANGED <<cacheFiles, now>>

\* A CacheManager after construction.
InitCacheObject ==
    /\ m_entries = EmptyMap
    /\ m_currentSize = 0
    /\ m_maxSize = 0
    /\ cm_initialized = FALSE
    /\ now = 0
    /\ lastCacheOp = [op |-> "construct", hash |-> NoHash, ok |-> TRUE,
                       saved |-> FALSE, old |-> EmptyMap]

\* ... over an empty cache directory.
InitCache ==
    /\ InitCacheObject
    /\ cacheFiles = {}
    /\ indexFile = EmptyMap

(***************************************************************************)
(* ThreadPool.  m_queueMutex is held only inside the steps below that say  *)
(* so; the one place where a thread keeps it across steps is waitAll()     *)
(* between evaluating its predicate and blocking (waiterPc = "predFalse"). *)
(* A worker's ++m_activeJobs, --m_activeJobs and its idle test run without *)
(* the mutex and are steps of their own.                                   *)
(***************************************************************************)
QueueMutexFree == waiterPc # "predFalse"

QueuesEmpty == m_tasks = <<>> /\ m_priorityTasks = {}

\* The predicate of waitAll() and the test of isIdle().
isIdle == QueuesEmpty /\ m_activeJobs = 0

BlockedWorkers == {w \in Workers : workerPc[w] = "blocked"}

\* m_condition.notify_one(): wakes one worker blocked in wait(), if any.
notify_one(pc) ==
    IF BlockedWorkers = {} THEN {pc}
    ELSE {[pc EXCEPT ![w] = "idle"] : w \in BlockedWorkers}

\* m_condition.notify_all()
notify_all(pc) == [w \in Workers |-> IF pc[w] = "blocked" THEN "idle" ELSE pc[w]]

\* submit / submitPriority, lines 98-100 and 131-133: with m_stop set the
\* call throws std::runtime_error while holding the mutex, before it
\* touches a queue.
throwStopped ==
    /\ submitResult' = "runtime_error"
    /\ UNCHANGED <<m_tasks, m_priorityTasks, m_stop, m_activeJobs, workerPc,
                   workerTask, jobState, nextJob, waiterPc, waitSnapshot,
                   jobKind, future, lastGet>>

\* submit() without the test of m_stop.
submitWhileStopped ==
    /\ QueueMutexFree
    /\ nextJob < MaxJobs
    /\ nextJob' = nextJob + 1
    /\ m_tasks' = Append(m_tasks, nextJob')
    /\ jobKind' = [jobKind EXCEPT ![nextJob'] = [queue |-> "fifo", priority |-> 0]]
    /\ jobState' = [jobState EXCEPT ![nextJob'] = "queued"]
    /\ workerPc' \in notify_one(workerPc)
    /\ submitResult' = "future"
    /\ UNCHANGED <<m_priorityTasks, m_stop, m_activeJobs, workerTask,
                   waiterPc, waitSnapshot, future, lastGet>>

\* ThreadPool::submit(f)
submit ==
    /\ QueueMutexFree
    /\ IF m_stop
       THEN throwStopped
       ELSE /\ nextJob < MaxJobs
            /\ nextJob' = nextJob + 1
            /\ m_tasks' = Append(m_tasks, nextJob')
            /\ jobKind' = [jobKind EXCEPT ![nextJob'] =
                              [queue |-> "fifo", priority |-> 0]]
            /\ jobState' = [jobState EXCEPT ![nextJob'] = "queued"]
            /\ workerPc' \in notify_one(workerPc)
            /\ submitResult' = "future"
            /\ UNCHANGED <<m_priorityTasks, m_stop, m_activeJobs, workerTask,
                           waiterPc, waitSnapshot, future, lastGet>>

\* ThreadPool::submitPriority(priority, f)
submitPriority(priority) ==
    /\ QueueMutexFree
    /\ IF m_stop
       THEN throwStopped
       ELSE /\ nextJob < MaxJobs
            /\ nextJob' = nextJob + 1
            /\ m_priorityTasks' =
                  m_priorityTasks \cup {[job |-> nextJob', priority |-> priority]}
            /\ jobKind' = [jobKind EXCEPT ![nextJob'] =
                              [queue |-> "priority", priority |-> priority]]
            /\ jobState' = [jobState EXCEPT ![nextJob'] = "queued"]
            /\ workerPc' \in notify_one(workerPc)
            /\ submitResult' = "future"
            /\ UNCHANGED <<m_tasks, m_stop, m_activeJobs, workerTask,
                           waiterPc, waitSnapshot, future, lastGet>>

\* The FIFO queue served before the priority queue.
fifoFirst == m_tasks = <<>>

\* workerLoop(), line 214: the priority queue is served first.
priorityFirst == m_priorityTasks # {}

\* top() returning an element of minimal priority.
bottom(pq) == {e \in pq : \A o \in pq : e.priority <= o.priority}

\* std::priority_queue::top() under PriorityTask::operator<: an element of
\* maximal priority.
top(pq) == {e \in pq : \A o \in pq : o.priority <= e.priority}

\* A worker leaving as soon as the stop flag is set.
stopOnly == m_stop

\* workerLoop(), line 210: a worker returns only when the pool is stopping
\* and both queues are empty.
stopAndDrained == m_stop /\ QueuesEmpty

\* workerLoop(), lines 204-222: under the mutex, wait for work or stop, then
\* return, or take a job (priority queue first).
WorkerWait(w) ==
    /\ workerPc[w] = "idle"
    /\ QueueMutexFree
    /\ IF ~(m_stop \/ ~QueuesEmpty)
       THEN /\ workerPc' = [workerPc EXCEPT ![w] = "blocked"]
            /\ UNCHANGED <<m_tasks, m_priorityTasks, workerTask, jobState>>
       ELSE IF stopAndDrained
       THEN /\ workerPc' = [workerPc EXCEPT ![w] = "exited"]
            /\ UNCHANGED <<m_tasks, m_priorityTasks, workerTask, jobState>>
       ELSE IF priorityFirst
       THEN \E e \in top(m_priorityTasks) :
               /\ m_priorityTasks' = m_priorityTasks \ {e}
               /\ workerTask' = [workerTask EXCEPT ![w] = e.job]
               /\ jobState' = [jobState EXCEPT ![e.job] = "taken"]
               /\ workerPc' = [workerPc EXCEPT ![w] = "dequeued"]
               /\ UNCHANGED m_tasks
       ELSE /\ m_tasks' = Tail(m_tasks)
            /\ workerTask' = [workerTask EXCEPT ![w] = Head(m_tasks)]
            /\ jobState' = [jobState EXCEPT ![Head(m_tasks)] = "taken"]
            /\ workerPc' = [workerPc EXCEPT ![w] = "dequeued"]
            /\ UNCHANGED m_priorityTasks
    /\ UNCHANGED <<m_stop, m_activeJobs, nextJob, waiterPc, waitSnapshot, submitResult, jobKind,
                   future, lastGet>>

\* workerLoop(), line 225: ++m_activeJobs, after the mutex was released.
WorkerBegin(w) ==
    /\ workerPc[w] = "dequeued"
    /\ m_activeJobs' = m_activeJobs + 1
    /\ workerPc' = [workerPc EXCEPT ![w] = "running"]
    /\ jobState' = [jobState EXCEPT ![workerTask[w]] = "running"]
    /\ UNCHANGED <<m_tasks, m_priorityTasks, m_stop, workerTask, nextJob,
                   waiterPc, waitSnapshot, submitResult, jobKind,
                   future, lastGet>>

\* workerLoop(), lines 226-230: task() runs the packaged_task of lines
\* 90-92, which stores the job's value or the exception it raised in the
\* shared state of the future; the worker goes on to line 231.
JobRun(w) ==
    /\ workerPc[w] = "running"
    /\ workerPc' = [workerPc EXCEPT ![w] = "ran"]
    /\ jobState' = [jobState EXCEPT ![workerTask[w]] = "done"]
    /\ \E outcome \in {"value", "exception"} :
          future' = [future EXCEPT ![workerTask[w]] = outcome]
    /\ UNCHANGED <<m_tasks, m_priorityTasks, m_stop, m_activeJobs, workerTask,
                   nextJob, waiterPc, waitSnapshot, submitResult, jobKind,
                   lastGet>>

\* std::future::get() on the handle submit() returned for job j, by the
\* thread that submitted it: returns the value or rethrows the stored
\* exception.
FutureGet(j) ==
    /\ j \in 1..nextJob
    /\ future[j] # "pending"
    /\ lastGet' = future[j]
    /\ UNCHANGED <<m_tasks, m_priorityTasks, m_stop, m_activeJobs, workerPc,
                   workerTask, jobState, nextJob, waiterPc, waitSnapshot,
                   submitResult, jobKind, future>>

\* workerLoop(), line 231: --m_activeJobs
WorkerDecrement(w) ==
    /\ workerPc[w] = "ran"
    /\ m_activeJobs' = m_activeJobs - 1
    /\ workerPc' = [workerPc EXCEPT ![w] = "decremented"]
    /\ workerTask' = [workerTask EXCEPT ![w] = NoJob]
    /\ UNCHANGED <<m_tasks, m_priorityTasks, m_stop, jobState, nextJob,
                   waiterPc, waitSnapshot, submitResult, jobKind,
                   future, lastGet>>

\* workerLoop(), lines 234-236: the idle test and m_idleCondition.notify_all(),
\* both without the mutex.
WorkerNotifyIdle(w) ==
    /\ workerPc[w] = "decremented"
    /\ workerPc' = [workerPc EXCEPT ![w] = "idle"]
    /\ waiterPc' = IF isIdle /\ waiterPc = "blocked" THEN "woken" ELSE waiterPc
    /\ UNCHANGED <<m_tasks, m_priorityTasks, m_stop, m_activeJobs, workerTask,
                   jobState, nextJob, waitSnapshot, submitResult, jobKind,
                   future, lastGet>>

\* waitAll(), lines 180-183: lock, evaluate the predicate; return if it
\* holds, else go on to block (still holding the mutex).
waitAllEvaluate(from) ==
    /\ waiterPc \in from
    /\ waiterPc' = IF isIdle THEN "returned" ELSE "predFalse"

WaitAllCall ==
    /\ ~m_stop
    /\ waitAllEvaluate({"none", "returned"})
    /\ waitSnapshot' = 1..nextJob
    /\ UNCHANGED <<m_tasks, m_priorityTasks, m_stop, m_activeJobs, workerPc,
                   workerTask, jobState, nextJob, submitResult, jobKind,
                   future, lastGet>>

\* condition_variable::wait(lock): release the mutex and block, atomically.
WaitAllBlock ==
    /\ waiterPc = "predFalse"
    /\ waiterPc' = "blocked"
    /\ UNCHANGED <<m_tasks, m_priorityTasks, m_stop, m_activeJobs, workerPc,
                   workerTask, jobState, nextJob, waitSnapshot, submitResult, jobKind,
                   future, lastGet>>

\* Woken: take the mutex again and evaluate the predicate again.
WaitAllWake ==
    /\ waitAllEvaluate({"woken"})
    /\ UNCHANGED <<m_tasks, m_priorityTasks, m_stop, m_activeJobs, workerPc,
                   workerTask, jobState, nextJob, waitSnapshot, submitResult, jobKind,
                   future, lastGet>>

\* A condition variable may wake a waiting thread without a notification.
WaiterSpuriousWakeup ==
    /\ waiterPc = "blocked"
    /\ waiterPc' = "woken"
    /\ UNCHANGED <<m_tasks, m_priorityTasks, m_stop, m_activeJobs, workerPc,
                   workerTask, jobState, nextJob, waitSnapshot, submitResult, jobKind,
                   future, lastGet>>

WorkerSpuriousWakeup(w) ==
    /\ workerPc[w] = "blocked"
    /\ workerPc' = [workerPc EXCEPT ![w] = "idle"]
    /\ UNCHANGED <<m_tasks, m_priorityTasks, m_stop, m_activeJobs, workerTask,
                   jobState, nextJob, waiterPc, waitSnapshot, submitResult, jobKind,
                   future, lastGet>>

\* ~ThreadPool(), lines 58-63: set m_stop under the mutex, notify_all; the
\* join of lines 65-69 ends when every worker is "exited".
Destructor ==
    /\ QueueMutexFree
    /\ waiterPc \in {"none", "returned"}
    /\ ~m_stop
    /\ m_stop' = TRUE
    /\ workerPc' = notify_all(workerPc)
    /\ UNCHANGED <<m_tasks, m_priorityTasks, m_activeJobs, workerTask,
                   jobState, nextJob, waiterPc, waitSnapshot, submitResult, jobKind,
                   future, lastGet>>

\* A ThreadPool whose workers are all at pc0.
InitPoolAt(pc0) ==
    /\ m_tasks = <<>>
    /\ m_priorityTasks = {}
    /\ m_stop = FALSE
    /\ m_activeJobs = 0
    /\ workerPc = [w \in Workers |-> pc0]
    /\ workerTask = [w \in Workers |-> NoJob]
    /\ jobState = [j \in Jobs |-> "none"]
    /\ nextJob = 0
    /\ waiterPc = "none"
    /\ waitSnapshot = {}
    /\ submitResult = "none"
    /\ jobKind = [j \in Jobs |-> [queue |-> "none", priority |-> 0]]
    /\ future = [j \in Jobs |-> "pending"]
    /\ lastGet = "none"

\* After the constructor: every worker has entered workerLoop().
InitPool == InitPoolAt("idle")

(***************************************************************************)
(* DownloadManager.  A task is handled by the closure addDownload submits  *)
(* to the pool; that closure owns a copy of the QueuedDownload, and        *)
(* m_activeTasks and m_queue hold further copies (DownloadTask's copy      *)
(* constructor copies the `cancelled` flag by value).  m_mutex is taken    *)
(* and released inside single steps.                                       *)
(***************************************************************************)
dmQueueVars == <<m_queue, m_activeTasks, m_taskProgress, m_totalTasks,
                 m_completedTasks>>
dmFlagVars == <<m_running, m_paused, dm_initialized, m_maxConcurrent>>
dmTaskVars == <<m_nextTaskId, task, jobTask, destination>>
dmExecVars == <<taskPc, attempt, error, success, cancelled>>
lockVars == <<mutexOwner, lockPc>>

NoHist == [slept |-> 0, attempts |-> 0, requests |-> 0, callbacks |-> 0, reported |-> "none",
           cancelUnstarted |-> FALSE, cancelTrue |-> FALSE,
           cancelAllUnstarted |-> FALSE]

\* The task a worker's closure works on.
TaskOf(w) == jobTask[workerTask[w]]

\* A task addDownload accepted for the pool and no worker has taken yet.
Unstarted(id) ==
    /\ taskPc[id] = "queued"
    /\ \E j \in 1..nextJob : jobTask[j] = id /\ jobState[j] = "queued"

\* DownloadManager::initialize(): the cache, then a pool of
\* download.maxConcurrent threads.
dmInitialize(maxConcurrent) ==
    /\ ~dm_initialized
    /\ ~m_stop
    /\ initialize(MaxCacheSize)
    /\ workerPc' = [w \in Workers |-> IF w <= maxConcurrent THEN "idle" ELSE "unborn"]
    /\ m_running' = TRUE
    /\ dm_initialized' = TRUE
    /\ m_maxConcurrent' = maxConcurrent
    /\ UNCHANGED <<m_tasks, m_priorityTasks, m_stop, m_activeJobs, workerTask,
                   jobState, nextJob, waiterPc, waitSnapshot, submitResult, jobKind,
                   future, lastGet>>
    /\ UNCHANGED <<dmQueueVars, m_paused, dmTaskVars, dmExecVars, retryCount,
                   hist, dmWaiterPc>>
    /\ UNCHANGED <<lockVars, busVars>>

\* The completion callback invoked twice.
completeCallbackTwice(h, ok) ==
    [h EXCEPT !.callbacks = @ + 2,
              !.reported = IF ok THEN "success" ELSE "failure"]

\* completeCallback(id, success, error): one invocation, recorded in the
\* task's history h (addDownload line 86, processDownload lines 252-256).
completeCallback(h, ok) ==
    [h EXCEPT !.callbacks = @ + 1,
              !.reported = IF ok THEN "success" ELSE "failure"]

\* DownloadManager::getProgress(taskId)
getProgress(taskId) ==
    IF taskId \in DOMAIN m_taskProgress THEN m_taskProgress[taskId] ELSE 0

\* addDownload taking every cache hit for served, whatever copyTo() returned.
copyToResultIgnored == TRUE

\* What copyTo() returned to addDownload, line 80.
copyToResult == lastCacheOp'.ok

\* addDownload handing the closure to submitPriority(priority, ...).
enqueueByPriority(taskId, priority) ==
    /\ m_queue' = m_queue \cup {taskId}
    /\ m_taskProgress' = With(m_taskProgress, taskId, 0)
    /\ m_totalTasks' = m_totalTasks + 1
    /\ submitPriority(priority)
    /\ jobTask' = [jobTask EXCEPT ![nextJob'] = taskId]
    /\ taskPc' = [taskPc EXCEPT ![taskId] = "queued"]
    /\ UNCHANGED <<m_activeTasks, m_completedTasks, destination, hist>>

\* addDownload, lines 92-102: record the task (with its priority, in
\* m_queue), count it, submit the closure with submit().
enqueue(taskId, priority) ==
    /\ m_queue' = m_queue \cup {taskId}
    /\ m_taskProgress' = With(m_taskProgress, taskId, 0)
    /\ m_totalTasks' = m_totalTasks + 1
    /\ submit
    /\ jobTask' = [jobTask EXCEPT ![nextJob'] = taskId]
    /\ taskPc' = [taskPc EXCEPT ![taskId] = "queued"]
    /\ UNCHANGED <<m_activeTasks, m_completedTasks, destination, hist>>

\* The cache-hit branch falling through to lines 92-102.
servedThenEnqueued(taskId, hasCallback, movedFromEmpty) ==
    /\ m_queue' = m_queue \cup {taskId}
    /\ m_taskProgress' = With(m_taskProgress, taskId, 0)
    /\ m_totalTasks' = m_totalTasks + 1
    /\ submit
    /\ jobTask' = [jobTask EXCEPT ![nextJob'] = taskId]
    /\ taskPc' = [taskPc EXCEPT ![taskId] = "served"]
    /\ destination' = [destination EXCEPT ![taskId] = TRUE]
    /\ UNCHANGED <<m_activeTasks, m_completedTasks, hist>>

\* addDownload, lines 85-88: `completeCallback` was moved from at line 77; a
\* moved-from std::function is empty or still holds its target, depending on
\* the library and the target's size (movedFromEmpty).
served(taskId, hasCallback, movedFromEmpty) ==
    /\ hist' = [hist EXCEPT ![taskId] =
                  IF hasCallback /\ ~movedFromEmpty
                  THEN completeCallback(@, TRUE)
                  ELSE @]
    /\ taskPc' = [taskPc EXCEPT ![taskId] = "served"]
    /\ destination' = [destination EXCEPT ![taskId] = TRUE]
    /\ UNCHANGED <<dmQueueVars, jobTask, poolVars>>

\* DownloadManager::addDownload(task, priority, progressCallback,
\* completeCallback).  queued.task is a copy of the caller's task: its sha1,
\* its status (Pending unless the caller changed it) and its cancellation
\* flag (taskCancelled) are the caller's.
addDownload(sha1, priority, hasCallback, copyOk, movedFromEmpty, taskCancelled) ==
    /\ dm_initialized
    /\ ~m_stop
    /\ m_nextTaskId < MaxTasks
    /\ LET taskId == m_nextTaskId + 1
       IN  /\ m_nextTaskId' = taskId
           /\ task' = [task EXCEPT ![taskId] =
                          [sha1 |-> sha1, hasCallback |-> hasCallback,
                           priority |-> priority, status |-> "Pending"]]
           /\ cancelled' = [cancelled EXCEPT ![taskId] = taskCancelled]
           /\ IF sha1 # NoHash /\ has(sha1)
              THEN /\ copyTo(sha1, copyOk)
                   /\ IF copyToResult
                      THEN served(taskId, hasCallback, movedFromEmpty)
                      ELSE enqueue(taskId, priority)
              ELSE /\ enqueue(taskId, priority)
                   /\ UNCHANGED cacheVars
    /\ UNCHANGED <<dmFlagVars, retryCount, attempt, error, success, dmWaiterPc>>
    /\ UNCHANGED <<lockVars, busVars>>

\* DownloadManager::cancelDownload(taskId)
cancelDownload(taskId) ==
    /\ taskId \in 1..m_nextTaskId
    /\ IF taskId \in DOMAIN m_activeTasks
       THEN /\ m_activeTasks' =
                  Without([m_activeTasks EXCEPT ![taskId].cancelled = TRUE], taskId)
            /\ hist' = [hist EXCEPT ![taskId].cancelTrue = TRUE]
       ELSE /\ hist' = [hist EXCEPT ![taskId].cancelUnstarted =
                                        @ \/ Unstarted(taskId)]
            /\ UNCHANGED m_activeTasks
    /\ UNCHANGED <<m_queue, m_taskProgress, m_totalTasks, m_completedTasks>>
    /\ UNCHANGED <<dmFlagVars, dmTaskVars, dmExecVars, retryCount, dmWaiterPc>>
    /\ UNCHANGED <<cacheVars, poolVars>>
    /\ UNCHANGED <<lockVars, busVars>>

\* The effect of cancelAll() on the coordinator's bookkeeping.
cancelAllEffect ==
    /\ m_activeTasks' = EmptyMap
    /\ m_queue' = {}
    /\ m_totalTasks' = 0
    /\ m_completedTasks' = 0
    /\ hist' = [id \in Tasks |->
                  [hist[id] EXCEPT !.cancelAllUnstarted = @ \/ Unstarted(id)]]
    /\ UNCHANGED m_taskProgress

\* DownloadManager::cancelAll()
cancelAll ==
    /\ dm_initialized
    /\ cancelAllEffect
    /\ UNCHANGED <<dmFlagVars, dmTaskVars, dmExecVars, retryCount, dmWaiterPc>>
    /\ UNCHANGED <<cacheVars, poolVars>>
    /\ UNCHANGED <<lockVars, busVars>>

\* DownloadManager::pauseAll()
pauseAll ==
    /\ dm_initialized
    /\ ~m_paused
    /\ m_paused' = TRUE
    /\ UNCHANGED <<dmQueueVars, m_running, dm_initialized, m_maxConcurrent, dmTaskVars,
                   dmExecVars, retryCount, hist, dmWaiterPc>>
    /\ UNCHANGED <<cacheVars, poolVars>>
    /\ UNCHANGED <<lockVars, busVars>>

\* DownloadManager::resumeAll()
resumeAll ==
    /\ dm_initialized
    /\ m_paused
    /\ m_paused' = FALSE
    /\ UNCHANGED <<dmQueueVars, m_running, dm_initialized, m_maxConcurrent, dmTaskVars,
                   dmExecVars, retryCount, hist, dmWaiterPc>>
    /\ UNCHANGED <<cacheVars, poolVars>>
    /\ UNCHANGED <<lockVars, busVars>>

\* DownloadManager::setMaxConcurrent(max): stores the value (and writes it
\* to the configuration); the pool is left as initialize() built it.
setMaxConcurrent(max) ==
    /\ m_maxConcurrent' = max
    /\ UNCHANGED <<dmQueueVars, m_running, m_paused, dm_initialized, dmTaskVars,
                   dmExecVars, retryCount, hist, dmWaiterPc>>
    /\ UNCHANGED <<cacheVars, poolVars>>
    /\ UNCHANGED <<lockVars, busVars>>

\* DownloadManager::getPendingCount()
getPendingCount == Cardinality(m_queue)

\* The predicate of waitForAll().
waitForAllPredicate == m_queue = {} /\ m_activeTasks = EmptyMap

\* DownloadManager::waitForAll(): returns at once if the predicate holds,
\* else blocks on m_completionCondition; woken, it evaluates it again.
waitForAll ==
    /\ dm_initialized
    /\ dmWaiterPc \in {"none", "returned", "woken"}
    /\ dmWaiterPc' = IF waitForAllPredicate THEN "returned" ELSE "blocked"
    /\ UNCHANGED <<dmQueueVars, dmFlagVars, dmTaskVars, dmExecVars, retryCount,
                   hist>>
    /\ UNCHANGED <<cacheVars, poolVars>>
    /\ UNCHANGED <<lockVars, busVars>>

\* DownloadManager::shutdown(), lines 55-60: cancelAll(), m_running = false,
\* then ~ThreadPool() sets m_stop and wakes the workers.
dmShutdown ==
    /\ dm_initialized
    /\ ~m_stop
    /\ cancelAllEffect
    /\ m_running' = FALSE
    /\ Destructor
    /\ UNCHANGED <<m_paused, dm_initialized, m_maxConcurrent, dmTaskVars, dmExecVars,
                   retryCount, dmWaiterPc>>
    /\ UNCHANGED cacheVars
    /\ UNCHANGED <<lockVars, busVars>>

\* shutdown(), lines 60-61: the pool's destructor has joined every worker.
dmShutdownJoined ==
    /\ dm_initialized
    /\ m_stop
    /\ \A w \in Workers : workerPc[w] \in {"exited", "unborn"}
    /\ dm_initialized' = FALSE
    /\ UNCHANGED <<dmQueueVars, m_running, m_paused, m_maxConcurrent, dmTaskVars,
                   dmExecVars, retryCount, hist, dmWaiterPc>>
    /\ UNCHANGED <<cacheVars, poolVars>>
    /\ UNCHANGED <<lockVars, busVars>>

\* The closure returns to workerLoop(), line 231.
jobReturns(w) ==
    /\ workerPc' = [workerPc EXCEPT ![w] = "ran"]
    /\ jobState' = [jobState EXCEPT ![workerTask[w]] = "done"]
    /\ future' = [future EXCEPT ![workerTask[w]] = "value"]
    /\ UNCHANGED <<m_tasks, m_priorityTasks, m_stop, m_activeJobs, workerTask,
                   nextJob, waiterPc, waitSnapshot, submitResult, jobKind,
                   lastGet>>

Running(w, pcs) == workerPc[w] = "running" /\ taskPc[TaskOf(w)] \in pcs

\* processDownload, lines 228-230
processEntry(w) ==
    /\ Running(w, {"queued"})
    /\ IF ~m_running \/ cancelled[TaskOf(w)]
       THEN /\ taskPc' = [taskPc EXCEPT ![TaskOf(w)] = "dropped"]
            /\ jobReturns(w)
       ELSE /\ taskPc' = [taskPc EXCEPT ![TaskOf(w)] = "pauseloop"]
            /\ UNCHANGED poolVars
    /\ UNCHANGED <<dmQueueVars, dmFlagVars, dmTaskVars, attempt, error, success,
                   cancelled, retryCount, hist, dmWaiterPc>>
    /\ UNCHANGED cacheVars
    /\ UNCHANGED <<lockVars, busVars>>

\* processDownload, lines 233-235: leave the sleep-poll loop.
processPauseLoop(w) ==
    /\ Running(w, {"pauseloop"})
    /\ ~(m_paused /\ m_running)
    /\ taskPc' = [taskPc EXCEPT ![TaskOf(w)] = "activate"]
    /\ UNCHANGED <<dmQueueVars, dmFlagVars, dmTaskVars, attempt, error, success,
                   cancelled, retryCount, hist, dmWaiterPc>>
    /\ UNCHANGED <<cacheVars, poolVars>>
    /\ UNCHANGED <<lockVars, busVars>>

\* processDownload, lines 237-242: m_activeTasks[id] = queued (a copy), then
\* executeDownload is entered.
processActivate(w) ==
    /\ Running(w, {"activate"})
    /\ m_activeTasks' = With(m_activeTasks, TaskOf(w),
                             [cancelled |-> cancelled[TaskOf(w)]])
    /\ taskPc' = [taskPc EXCEPT ![TaskOf(w)] = "loop"]
    /\ attempt' = [attempt EXCEPT ![TaskOf(w)] = 0]
    /\ UNCHANGED <<m_queue, m_taskProgress, m_totalTasks, m_completedTasks>>
    /\ UNCHANGED <<dmFlagVars, dmTaskVars, error, success, cancelled,
                   retryCount, hist, dmWaiterPc>>
    /\ UNCHANGED <<cacheVars, poolVars>>
    /\ UNCHANGED <<lockVars, busVars>>

\* The loop of line 284 with `<` for `<=`.
loopStopsEarly(a) == a < retryCount

\* The loop condition of executeDownload, line 284.
loopContinues(a) == a <= retryCount

\* executeDownload, lines 284-292 and 387-388: the loop condition, the
\* cancellation check, and whether a backoff sleep precedes the attempt.
executeLoopHead(w) ==
    /\ Running(w, {"loop"})
    /\ LET id == TaskOf(w)
       IN  IF ~loopContinues(attempt[id]) \/ cancelled[id]
           THEN /\ success' = [success EXCEPT ![id] = FALSE]
                /\ taskPc' = [taskPc EXCEPT ![id] = "finish"]
                /\ UNCHANGED hist
           ELSE /\ taskPc' = [taskPc EXCEPT ![id] =
                                 IF attempt[id] > 0 THEN "backoff" ELSE "try"]
                /\ hist' = [hist EXCEPT ![id].attempts = @ + 1]
                /\ UNCHANGED success
    /\ UNCHANGED <<dmQueueVars, dmFlagVars, dmTaskVars, attempt, error,
                   cancelled, retryCount, dmWaiterPc>>
    /\ UNCHANGED <<cacheVars, poolVars>>
    /\ UNCHANGED <<lockVars, busVars>>

\* A backoff that doubles with every attempt.
exponentialDelay(a) == RetryDelay * 2 ^ a

\* executeDownload, line 291: the milliseconds slept before attempt a.
backoffDelay(a) == RetryDelay * a

\* executeDownload, line 291: sleep_for(retryDelay * attempt) has elapsed;
\* hist.slept is the total the task has slept so far.
executeBackoff(w) ==
    /\ Running(w, {"backoff"})
    /\ taskPc' = [taskPc EXCEPT ![TaskOf(w)] = "try"]
    /\ hist' = [hist EXCEPT ![TaskOf(w)].slept =
                               @ + backoffDelay(attempt[TaskOf(w)])]
    /\ UNCHANGED <<dmQueueVars, dmFlagVars, dmTaskVars, attempt, error, success,
                   cancelled, retryCount, dmWaiterPc>>
    /\ UNCHANGED <<cacheVars, poolVars>>
    /\ UNCHANGED <<lockVars, busVars>>

\* e.what() of an exception caught at lines 381-384.
ExceptionWhat == "exception"

\* One loop iteration ends without success: task.error is set and the loop
\* goes to ++attempt.
attemptFails(id, what) ==
    /\ error' = [error EXCEPT ![id] = what]
    /\ attempt' = [attempt EXCEPT ![id] = @ + 1]
    /\ taskPc' = [taskPc EXCEPT ![id] = "loop"]

\* executeDownload, lines 294-311: create the directories (may throw), open
\* the destination (may fail), else issue the request.
executeOpen(w) ==
    /\ Running(w, {"try"})
    /\ LET id == TaskOf(w)
       IN  \/ /\ attemptFails(id, ExceptionWhat)
              /\ UNCHANGED <<hist, destination>>
           \/ /\ attemptFails(id, "Failed to open output file")
              /\ UNCHANGED <<hist, destination>>
           \/ /\ taskPc' = [taskPc EXCEPT ![id] = "transfer"]
              /\ destination' = [destination EXCEPT ![id] = TRUE]
              /\ hist' = [hist EXCEPT ![id].requests = @ + 1]
              /\ UNCHANGED <<attempt, error>>
    /\ UNCHANGED <<dmQueueVars, dmFlagVars, m_nextTaskId, task, jobTask, success,
                   cancelled, retryCount, dmWaiterPc>>
    /\ UNCHANGED <<cacheVars, poolVars>>
    /\ UNCHANGED <<lockVars, busVars>>

\* The progress callback, lines 315-353, on a chunk: stop if the task's
\* flag is set, else record the fraction under m_mutex.
executeProgress(w) ==
    /\ Running(w, {"transfer", "streaming"})
    /\ LET id == TaskOf(w)
       IN  IF cancelled[id]
           THEN /\ taskPc' = [taskPc EXCEPT ![id] = "aborting"]
                /\ UNCHANGED m_taskProgress
           ELSE /\ taskPc[id] = "transfer"
                /\ taskPc' = [taskPc EXCEPT ![id] = "streaming"]
                /\ m_taskProgress' = With(m_taskProgress, id, 50)
    /\ UNCHANGED <<m_queue, m_activeTasks, m_totalTasks, m_completedTasks>>
    /\ UNCHANGED <<dmFlagVars, dmTaskVars, attempt, error, success, cancelled,
                   retryCount, hist, dmWaiterPc>>
    /\ UNCHANGED <<cacheVars, poolVars>>
    /\ UNCHANGED <<lockVars, busVars>>

\* std::filesystem::remove(task.destination) left in place.
keepDestination(id) == UNCHANGED destination

\* std::filesystem::remove(task.destination), lines 360 and 368.
removeDestination(id) == destination' = [destination EXCEPT ![id] = FALSE]

\* executeDownload, lines 356-384: the request has ended.
executeTransferEnd(w) ==
    /\ Running(w, {"transfer", "streaming", "aborting"})
    /\ LET id == TaskOf(w)
       IN  \/ /\ attemptFails(id, "HTTP status")
              /\ removeDestination(id)
              /\ UNCHANGED <<success, cacheVars>>
           \/ /\ taskPc[id] # "aborting"
              /\ attemptFails(id, ExceptionWhat)
              /\ UNCHANGED <<success, cacheVars, destination>>
           \/ /\ taskPc[id] # "aborting"
              /\ task[id].sha1 # NoHash
              /\ attemptFails(id, "Checksum mismatch")
              /\ removeDestination(id)
              /\ UNCHANGED <<success, cacheVars>>
           \/ /\ taskPc[id] # "aborting"
              /\ IF task[id].sha1 # NoHash
                 THEN \E copyOk \in BOOLEAN : add(task[id].sha1, DMFileSize, copyOk)
                 ELSE UNCHANGED cacheVars
              /\ success' = [success EXCEPT ![id] = TRUE]
              /\ taskPc' = [taskPc EXCEPT ![id] = "finish"]
              /\ UNCHANGED <<attempt, error, destination>>
    /\ UNCHANGED <<dmQueueVars, dmFlagVars, m_nextTaskId, task, jobTask,
                   cancelled, retryCount, hist, dmWaiterPc>>
    /\ UNCHANGED poolVars
    /\ UNCHANGED <<lockVars, busVars>>

\* processDownload, lines 244-249
processFinish(w) ==
    /\ Running(w, {"finish"})
    /\ LET id == TaskOf(w)
       IN  /\ m_activeTasks' = Without(m_activeTasks, id)
           /\ m_taskProgress' =
                 With(m_taskProgress, id, IF success[id] THEN 100 ELSE -100)
           /\ m_completedTasks' = m_completedTasks + 1
           /\ taskPc' = [taskPc EXCEPT ![id] = "callback"]
    /\ UNCHANGED <<m_queue, m_totalTasks>>
    /\ UNCHANGED <<dmFlagVars, dmTaskVars, attempt, error, success, cancelled,
                   retryCount, hist, dmWaiterPc>>
    /\ UNCHANGED <<cacheVars, poolVars>>
    /\ UNCHANGED <<lockVars, busVars>>

\* processDownload, lines 251-272: the completion callback, then
\* m_completionCondition.notify_all() if m_completedTasks >= m_totalTasks.
processReport(w) ==
    /\ Running(w, {"callback"})
    /\ LET id == TaskOf(w)
       IN  /\ hist' = [hist EXCEPT ![id] =
                         IF task[id].hasCallback
                         THEN completeCallback(@, success[id])
                         ELSE @]
           /\ taskPc' = [taskPc EXCEPT ![id] = "done"]
    /\ dmWaiterPc' = IF m_completedTasks >= m_totalTasks /\ dmWaiterPc = "blocked"
                     THEN "woken" ELSE dmWaiterPc
    /\ jobReturns(w)
    /\ UNCHANGED <<dmQueueVars, dmFlagVars, dmTaskVars, attempt, error, success,
                   cancelled, retryCount>>
    /\ UNCHANGED cacheVars
    /\ UNCHANGED <<lockVars, busVars>>

(***************************************************************************)
(* The two mutexes.  A call is followed through the lock operations it      *)
(* performs, in program order: a thread takes a mutex when no thread holds *)
(* it and releases it at the end of the lock_guard's scope.                *)
(***************************************************************************)
Mutexes == {"m_mutex", "cacheMutex"}
Threads == {"caller", "controller", "worker1", "worker2"}
NoThread == "none"
OutsideCalls == [ops |-> <<>>, done |-> 0]

Lock(m) == [op |-> "lock", mutex |-> m]
Unlock(m) == [op |-> "unlock", mutex |-> m]
Guarded(m) == <<Lock(m), Unlock(m)>>

\* addDownload: has() and, on a hit, copyTo() -> get() each take the
\* cache's mutex (CacheManager.cpp:87, 92) and return before line 93 takes
\* m_mutex for the scope of lines 92-97; a served hit returns at line 88.
addDownloadLocks ==
    { Guarded("cacheMutex") \o Guarded("m_mutex"),
      Guarded("cacheMutex") \o Guarded("cacheMutex"),
      Guarded("cacheMutex") \o Guarded("cacheMutex") \o Guarded("m_mutex"),
      Guarded("m_mutex") }

\* processDownload with CacheManager::add called inside the scope of the
\* lock of lines 244-249.
processDownloadLocksNested ==
    { Guarded("m_mutex")
        \o <<Lock("m_mutex"), Lock("cacheMutex"), Unlock("cacheMutex"),
             Unlock("m_mutex")>> }

\* processDownload: m_mutex for lines 238-241; in executeDownload the
\* progress callback takes m_mutex for lines 329-335, and after a matching
\* checksum CacheManager::add takes the cache's mutex (line 373); then
\* m_mutex for lines 244-249.  A task cancelled or stopped at line 228 takes
\* no lock.
processDownloadLocks ==
    { <<>>,
      Guarded("m_mutex") \o Guarded("m_mutex"),
      Guarded("m_mutex") \o Guarded("m_mutex") \o Guarded("m_mutex"),
      Guarded("m_mutex") \o Guarded("m_mutex") \o Guarded("cacheMutex")
          \o Guarded("m_mutex"),
      Guarded("m_mutex") \o Guarded("cacheMutex") \o Guarded("m_mutex") }

\* cancelDownload and cancelAll: m_mutex for the whole call.
cancelLocks == { Guarded("m_mutex") }

\* waitForAll: m_mutex to evaluate the predicate; a blocked wait releases
\* it and takes it again when woken.
waitForAllLocks == { Guarded("m_mutex"), Guarded("m_mutex") \o Guarded("m_mutex") }

\* Thread t, outside any call, enters a call that performs one of `programs`.
lockCall(t, programs) ==
    /\ lockPc[t].done = Len(lockPc[t].ops)
    /\ \E ops \in programs : lockPc' = [lockPc EXCEPT ![t] = [ops |-> ops, done |-> 0]]
    /\ UNCHANGED mutexOwner

\* Thread t performs the next lock operation of its call.
lockStep(t) ==
    /\ lockPc[t].done < Len(lockPc[t].ops)
    /\ LET o == lockPc[t].ops[lockPc[t].done + 1]
       IN  IF o.op = "lock"
           THEN /\ mutexOwner[o.mutex] = NoThread
                /\ mutexOwner' = [mutexOwner EXCEPT ![o.mutex] = t]
           ELSE mutexOwner' = [mutexOwner EXCEPT ![o.mutex] = NoThread]
    /\ lockPc' = [lockPc EXCEPT ![t].done = @ + 1]

\* A DownloadManager after construction.
InitDM ==
    /\ m_queue = {}
    /\ m_activeTasks = EmptyMap
    /\ m_taskProgress = EmptyMap
    /\ m_totalTasks = 0
    /\ m_completedTasks = 0
    /\ m_running = FALSE
    /\ m_paused = FALSE
    /\ dm_initialized = FALSE
    /\ m_maxConcurrent = DefaultMaxConcurrent
    /\ m_nextTaskId = 0
    /\ task = [id \in Tasks |-> [sha1 |-> NoHash, hasCallback |-> FALSE,
                                  priority |-> DefaultPriority,
                                  status |-> "Pending"]]
    /\ jobTask = [j \in Jobs |-> NoTask]
    /\ taskPc = [id \in Tasks |-> "none"]
    /\ attempt = [id \in Tasks |-> 0]
    /\ error = [id \in Tasks |-> ""]
    /\ success = [id \in Tasks |-> FALSE]
    /\ cancelled = [id \in Tasks |-> FALSE]
    /\ destination = [id \in Tasks |-> FALSE]
    /\ hist = [id \in Tasks |-> NoHist]
    /\ dmWaiterPc = "none"
    /\ mutexOwner = [m \in Mutexes |-> NoThread]
    /\ lockPc = [t \in Threads |-> OutsideCalls]

(***************************************************************************)
(* EventBus, for the subscribers of one event name.  m_mutex is held only  *)
(* inside the steps that say so; callbacks run outside of it, on the       *)
(* thread that called emit().                                              *)
(***************************************************************************)
NoSubscription == [kind |-> "none", active |-> FALSE]

\* subscribe() and once(): a new entry at the end of the event's list; for
\* once() the entry's callback is the wrapper of lines 154-157.
register(kind) ==
    /\ m_nextId < MaxSubscriptions
    /\ m_subscribers' = Append(m_subscribers, m_nextId)
    /\ subscription' = [subscription EXCEPT ![m_nextId] =
                            [kind |-> kind, active |-> TRUE]]
    /\ m_nextId' = m_nextId + 1
    /\ UNCHANGED <<calls, emitStack, emitCount, unsubscribing>>

\* EventBus::subscribe(event, callback)
subscribe == register("plain")

\* EventBus::once(event, callback)
once == register("once")

\* Subscription::cancel(), called by unsubscribe() before it takes m_mutex.
cancel(id) == subscription' = [subscription EXCEPT ![id].active = FALSE]

\* unsubscribe(), lines 91-100: under m_mutex, remove the entry of id.
erase(id) == m_subscribers' = SelectSeq(m_subscribers, LAMBDA x : x # id)

\* emit(), lines 111-122: under m_mutex, the callbacks of the entries whose
\* subscription is active, in list order.
activeCallbacks == SelectSeq(m_subscribers, LAMBDA id : subscription[id].active)

\* The innermost emit() call of emitter e.
Frame(e) == emitStack[e][1]

InFrame(e, pc) == emitStack[e] # <<>> /\ Frame(e).pc = pc

\* The callback the innermost emit() of e is at.
Current(e) == Head(Frame(e).callbacks)

\* The innermost emit() of e goes on to its next callback.
nextCallback(e) ==
    emitStack' = [emitStack EXCEPT ![e][1] =
                     [callbacks |-> Tail(@.callbacks), pc |-> "call"]]

\* EventBus::emit(event, data), lines 109-122, called by a thread that is
\* not in emit() or by a user callback that emit() is running.
emit(e) ==
    /\ emitCount < MaxEmits
    /\ \/ emitStack[e] = <<>>
       \/ InFrame(e, "inCallback") /\ Len(emitStack[e]) < MaxEmitDepth
    /\ emitStack' = [emitStack EXCEPT ![e] =
                        <<[callbacks |-> activeCallbacks, pc |-> "call"]>> \o @]
    /\ emitCount' = emitCount + 1
    /\ UNCHANGED <<m_subscribers, subscription, m_nextId, calls, unsubscribing>>

\* emit(), lines 125-127: enter the next collected callback, or return when
\* none is left.  The wrapper of once() calls the user's callback first.
emitCall(e) ==
    /\ InFrame(e, "call")
    /\ IF Frame(e).callbacks = <<>>
       THEN /\ emitStack' = [emitStack EXCEPT ![e] = Tail(@)]
            /\ UNCHANGED calls
       ELSE /\ calls[Current(e)] < MaxCalls
            /\ calls' = [calls EXCEPT ![Current(e)] = @ + 1]
            /\ emitStack' = [emitStack EXCEPT ![e][1].pc = "inCallback"]
    /\ UNCHANGED <<m_subscribers, subscription, m_nextId, emitCount,
                   unsubscribing>>

\* The user's callback returns or throws (threw).  After a callback of
\* once() that returned, the wrapper goes on to unsubscribe(), line 156; an
\* exception leaves the wrapper and is caught by emit(), lines 128-130.
callbackReturns(e, threw) ==
    /\ InFrame(e, "inCallback")
    /\ IF subscription[Current(e)].kind = "once" /\ ~threw
       THEN emitStack' = [emitStack EXCEPT ![e][1].pc = "cancel"]
       ELSE nextCallback(e)
    /\ UNCHANGED <<m_subscribers, subscription, m_nextId, calls, emitCount,
                   unsubscribing>>

\* The wrapper of once(): unsubscribe(), line 89.
wrapperCancel(e) ==
    /\ InFrame(e, "cancel")
    /\ cancel(Current(e))
    /\ emitStack' = [emitStack EXCEPT ![e][1].pc = "erase"]
    /\ UNCHANGED <<m_subscribers, m_nextId, calls, emitCount, unsubscribing>>

\* The wrapper of once(): unsubscribe(), lines 91-100, then the wrapper
\* returns to emit().
wrapperErase(e) ==
    /\ InFrame(e, "erase")
    /\ erase(Current(e))
    /\ nextCallback(e)
    /\ UNCHANGED <<subscription, m_nextId, calls, emitCount, unsubscribing>>

\* EventBus::unsubscribe(subscription) called with the handle of id: line 89
unsubscribeCancel(id) ==
    /\ subscription[id].kind # "none"
    /\ id \notin unsubscribing
    /\ cancel(id)
    /\ unsubscribing' = unsubscribing \cup {id}
    /\ UNCHANGED <<m_subscribers, m_nextId, calls, emitStack, emitCount>>

\* ... and lines 91-100.
unsubscribeErase(id) ==
    /\ id \in unsubscribing
    /\ erase(id)
    /\ unsubscribing' = unsubscribing \ {id}
    /\ UNCHANGED <<subscription, m_nextId, calls, emitStack, emitCount>>

\* An EventBus nobody has subscribed to.
InitEventBus ==
    /\ m_subscribers = <<>>
    /\ subscription = [id \in SubscriptionIds |-> NoSubscription]
    /\ m_nextId = 0
    /\ calls = [id \in SubscriptionIds |-> 0]
    /\ emitStack = [e \in Emitters |-> <<>>]
    /\ emitCount = 0
    /\ unsubscribing = {}

(***************************************************************************)
(* SpecCache: the CacheManager driven by its public calls.                 *)
(***************************************************************************)
CacheInitialize ==
    /\ \E n \in CacheSizes : initialize(n)
    /\ UNCHANGED <<poolVars, dmVars, busVars>>
CacheShutdown == shutdown /\ UNCHANGED <<poolVars, dmVars, busVars>>
CacheAdd ==
    /\ \E h \in Hashes \cup {NoHash}, s \in {0} \cup FileSizes, ok \in BOOLEAN :
          add(h, s, ok)
    /\ UNCHANGED <<poolVars, dmVars, busVars>>
CacheGet == (\E h \in Hashes : get(h)) /\ UNCHANGED <<poolVars, dmVars, busVars>>
CacheRemove == (\E h \in Hashes : remove(h)) /\ UNCHANGED <<poolVars, dmVars, busVars>>
CacheClear == clear /\ UNCHANGED <<poolVars, dmVars, busVars>>
CacheSetMaxSize ==
    /\ \E n \in CacheSizes : setMaxSize(n)
    /\ UNCHANGED <<poolVars, dmVars, busVars>>
CacheRunMaintenance == runMaintenance /\ UNCHANGED <<poolVars, dmVars, busVars>>
CacheExternalDelete ==
    /\ \E h \in Hashes : ExternalDelete(h)
    /\ UNCHANGED <<poolVars, dmVars, busVars>>
CacheReconstruct == Reconstruct /\ UNCHANGED <<poolVars, dmVars, busVars>>

NextCache ==
    \/ CacheInitialize
    \/ CacheShutdown
    \/ CacheAdd
    \/ CacheGet
    \/ CacheRemove
    \/ CacheClear
    \/ CacheSetMaxSize
    \/ CacheRunMaintenance
    \/ CacheExternalDelete

InitSpecCache ==
    InitCache /\ InitPool /\ InitDM /\ retryCount = 0 /\ InitEventBus

SpecCache == InitSpecCache /\ [][NextCache]_vars

(***************************************************************************)
(* SpecCacheRestart: a CacheManager that is used through initialize, add, *)
(* get, remove, setMaxSize and shutdown, and that can be destroyed and     *)
(* constructed again on the same cache directory.                          *)
(***************************************************************************)
NextCacheRestart ==
    \/ CacheInitialize
    \/ CacheShutdown
    \/ CacheAdd
    \/ CacheGet
    \/ CacheRemove
    \/ CacheSetMaxSize
    \/ CacheReconstruct

SpecCacheRestart == InitSpecCache /\ [][NextCacheRestart]_vars

(***************************************************************************)
(* SpecPool: the ThreadPool with submitters, its workers, one thread in    *)
(* waitAll() and the destructor.                                           *)
(***************************************************************************)
PoolSubmit == submit /\ UNCHANGED <<cacheVars, dmVars, busVars>>
PoolSubmitPriority ==
    /\ \E p \in Priorities : submitPriority(p)
    /\ UNCHANGED <<cacheVars, dmVars, busVars>>
PoolWorkerWait == (\E w \in Workers : WorkerWait(w)) /\ UNCHANGED <<cacheVars, dmVars, busVars>>
PoolWorkerBegin == (\E w \in Workers : WorkerBegin(w)) /\ UNCHANGED <<cacheVars, dmVars, busVars>>
PoolJobRun == (\E w \in Workers : JobRun(w)) /\ UNCHANGED <<cacheVars, dmVars, busVars>>
PoolWorkerDecrement ==
    /\ \E w \in Workers : WorkerDecrement(w)
    /\ UNCHANGED <<cacheVars, dmVars, busVars>>
PoolWorkerNotifyIdle ==
    /\ \E w \in Workers : WorkerNotifyIdle(w)
    /\ UNCHANGED <<cacheVars, dmVars, busVars>>
PoolWaitAllCall == WaitAllCall /\ UNCHANGED <<cacheVars, dmVars, busVars>>
PoolWaitAllBlock == WaitAllBlock /\ UNCHANGED <<cacheVars, dmVars, busVars>>
PoolWaitAllWake == WaitAllWake /\ UNCHANGED <<cacheVars, dmVars, busVars>>
PoolWaiterSpuriousWakeup == WaiterSpuriousWakeup /\ UNCHANGED <<cacheVars, dmVars, busVars>>
PoolWorkerSpuriousWakeup ==
    /\ \E w \in Workers : WorkerSpuriousWakeup(w)
    /\ UNCHANGED <<cacheVars, dmVars, busVars>>
PoolDestructor == Destructor /\ UNCHANGED <<cacheVars, dmVars, busVars>>
PoolFutureGet == (\E j \in Jobs : FutureGet(j)) /\ UNCHANGED <<cacheVars, dmVars, busVars>>

NextPool ==
    \/ PoolSubmit
    \/ PoolSubmitPriority
    \/ PoolWorkerWait
    \/ PoolWorkerBegin
    \/ PoolJobRun
    \/ PoolWorkerDecrement
    \/ PoolWorkerNotifyIdle
    \/ PoolWaitAllCall
    \/ PoolWaitAllBlock
    \/ PoolWaitAllWake
    \/ PoolWaiterSpuriousWakeup
    \/ PoolWorkerSpuriousWakeup
    \/ PoolDestructor
    \/ PoolFutureGet

InitSpecPool ==
    InitCache /\ InitPool /\ InitDM /\ retryCount = 0 /\ InitEventBus

SpecPool == InitSpecPool /\ [][NextPool]_vars

(***************************************************************************)
(* SpecDM: the DownloadManager with its callers, the pool's workers        *)
(* running processDownload, and one thread in waitForAll().  The cache     *)
(* directory is empty or holds DMHash from an earlier run; retryCount is   *)
(* what the configuration says.                                            *)
(***************************************************************************)
InitDownload ==
    /\ InitCacheObject
    /\ \/ /\ cacheFiles = {}
          /\ indexFile = EmptyMap
       \/ /\ cacheFiles = {DMHash}
          /\ indexFile = [h \in {DMHash} |-> [size |-> DMFileSize, accessCount |-> 1]]
    /\ InitPoolAt("unborn")
    /\ InitDM
    /\ retryCount \in RetryCounts
    /\ InitEventBus

DMInitialize == \E maxConcurrent \in Workers : dmInitialize(maxConcurrent)
DMAddDownload ==
    \E sha1 \in {NoHash, DMHash}, copyOk \in BOOLEAN, movedFromEmpty \in BOOLEAN :
        addDownload(sha1, DefaultPriority, TRUE, copyOk, movedFromEmpty, FALSE)
DMWaitForAll == waitForAll
DMWorkerWait == (\E w \in Workers : WorkerWait(w)) /\ UNCHANGED <<cacheVars, dmVars, busVars>>
DMWorkerBegin == (\E w \in Workers : WorkerBegin(w)) /\ UNCHANGED <<cacheVars, dmVars, busVars>>
DMWorkerDecrement ==
    /\ \E w \in Workers : WorkerDecrement(w)
    /\ UNCHANGED <<cacheVars, dmVars, busVars>>
DMWorkerNotifyIdle ==
    /\ \E w \in Workers : WorkerNotifyIdle(w)
    /\ UNCHANGED <<cacheVars, dmVars, busVars>>
DMProcessEntry == \E w \in Workers : processEntry(w)
DMProcessPauseLoop == \E w \in Workers : processPauseLoop(w)
DMProcessActivate == \E w \in Workers : processActivate(w)
DMExecuteLoopHead == \E w \in Workers : executeLoopHead(w)
DMExecuteBackoff == \E w \in Workers : executeBackoff(w)
DMExecuteOpen == \E w \in Workers : executeOpen(w)
DMExecuteProgress == \E w \in Workers : executeProgress(w)
DMExecuteTransferEnd == \E w \in Workers : executeTransferEnd(w)
DMProcessFinish == \E w \in Workers : processFinish(w)
DMProcessReport == \E w \in Workers : processReport(w)

\* The pool's workers running processDownload.
DMWorkers ==
    \/ DMWorkerWait
    \/ DMWorkerBegin
    \/ DMWorkerDecrement
    \/ DMWorkerNotifyIdle
    \/ DMProcessEntry
    \/ DMProcessPauseLoop
    \/ DMProcessActivate
    \/ DMExecuteLoopHead
    \/ DMExecuteBackoff
    \/ DMExecuteOpen
    \/ DMExecuteProgress
    \/ DMExecuteTransferEnd
    \/ DMProcessFinish
    \/ DMProcessReport

NextDM ==
    \/ DMInitialize
    \/ DMAddDownload
    \/ DMWaitForAll
    \/ DMWorkers

SpecDM == InitDownload /\ [][NextDM]_vars

(***************************************************************************)
(* SpecDMControl: the DownloadManager with the callers that cancel, pause, *)
(* resume and shut down, on tasks that declare no hash (the cache is not   *)
(* consulted).                                                             *)
(***************************************************************************)
InitControl ==
    /\ InitCache
    /\ InitPoolAt("unborn")
    /\ InitDM
    /\ retryCount \in RetryCounts
    /\ InitEventBus

CtlInitialize == dmInitialize(1)
CtlAddDownload ==
    \E taskCancelled \in BOOLEAN :
        addDownload(NoHash, DefaultPriority, TRUE, TRUE, TRUE, taskCancelled)
CtlCancelDownload == \E id \in Tasks : cancelDownload(id)
CtlCancelAll == cancelAll
CtlPauseAll == pauseAll
CtlResumeAll == resumeAll
CtlShutdown == dmShutdown
CtlShutdownJoined == dmShutdownJoined

NextDMControl ==
    \/ CtlInitialize
    \/ CtlAddDownload
    \/ CtlCancelDownload
    \/ CtlCancelAll
    \/ CtlPauseAll
    \/ CtlResumeAll
    \/ CtlShutdown
    \/ CtlShutdownJoined
    \/ DMWorkers

SpecDMControl == InitControl /\ [][NextDMControl]_vars

(***************************************************************************)
(* SpecDMOrder: downloads added with different priorities, on a pool of    *)
(* one or more threads.                                                    *)
(***************************************************************************)
InitOrder ==
    /\ InitCache
    /\ InitPoolAt("unborn")
    /\ InitDM
    /\ retryCount \in RetryCounts
    /\ InitEventBus

OrdAddDownload ==
    \E priority \in Priorities :
        addDownload(NoHash, priority, TRUE, TRUE, TRUE, FALSE)

NextDMOrder ==
    \/ DMInitialize
    \/ OrdAddDownload
    \/ DMWorkers

SpecDMOrder == InitOrder /\ [][NextDMOrder]_vars

(***************************************************************************)
(* SpecDMLocks: the lock operations of the DownloadManager's calls, two    *)
(* application threads and two pool workers interleaved at every lock and  *)
(* unlock.                                                                 *)
(***************************************************************************)
dmStateVars == <<m_queue, m_activeTasks, m_taskProgress, m_totalTasks,
                 m_completedTasks, m_running, m_paused, dm_initialized,
                 m_maxConcurrent, m_nextTaskId, retryCount, task, jobTask,
                 taskPc, attempt, error, success, cancelled, destination, hist,
                 dmWaiterPc>>

InitLocks ==
    /\ InitCache
    /\ InitPoolAt("idle")
    /\ InitDM
    /\ retryCount = 0
    /\ InitEventBus

LkAddDownload ==
    /\ \E t \in {"caller", "controller"} : lockCall(t, addDownloadLocks)
    /\ UNCHANGED <<cacheVars, poolVars, dmStateVars, busVars>>
LkCancel ==
    /\ \E t \in {"caller", "controller"} : lockCall(t, cancelLocks)
    /\ UNCHANGED <<cacheVars, poolVars, dmStateVars, busVars>>
LkWaitForAll ==
    /\ \E t \in {"caller", "controller"} : lockCall(t, waitForAllLocks)
    /\ UNCHANGED <<cacheVars, poolVars, dmStateVars, busVars>>
LkProcessDownload ==
    /\ \E t \in {"worker1", "worker2"} : lockCall(t, processDownloadLocks)
    /\ UNCHANGED <<cacheVars, poolVars, dmStateVars, busVars>>
LkStep ==
    /\ \E t \in Threads : lockStep(t)
    /\ UNCHANGED <<cacheVars, poolVars, dmStateVars, busVars>>

NextDMLocks ==
    \/ LkAddDownload
    \/ LkCancel
    \/ LkWaitForAll
    \/ LkProcessDownload
    \/ LkStep

SpecDMLocks == InitLocks /\ [][NextDMLocks]_vars

(***************************************************************************)
(* SpecDMLimit: the DownloadManager with a caller that changes the maximum *)
(* of concurrent downloads while tasks (declaring no hash) are added and   *)
(* executed.                                                               *)
(***************************************************************************)
InitLimit ==
    /\ InitCache
    /\ InitPoolAt("unborn")
    /\ InitDM
    /\ retryCount \in RetryCounts
    /\ InitEventBus

LimAddDownload == addDownload(NoHash, DefaultPriority, TRUE, TRUE, TRUE, FALSE)

LimSetMaxConcurrent ==
    /\ dm_initialized
    /\ \E max \in Workers : setMaxConcurrent(max)

NextDMLimit ==
    \/ DMInitialize
    \/ LimAddDownload
    \/ LimSetMaxConcurrent
    \/ DMWorkers

SpecDMLimit == InitLimit /\ [][NextDMLimit]_vars

(***************************************************************************)
(* SpecBus: the EventBus with clients that subscribe and unsubscribe and   *)
(* threads that emit.                                                      *)
(***************************************************************************)
BusSubscribe == subscribe /\ UNCHANGED <<cacheVars, poolVars, dmVars>>
BusOnce == once /\ UNCHANGED <<cacheVars, poolVars, dmVars>>
BusEmit == (\E e \in Emitters : emit(e)) /\ UNCHANGED <<cacheVars, poolVars, dmVars>>
BusEmitCall ==
    /\ \E e \in Emitters : emitCall(e)
    /\ UNCHANGED <<cacheVars, poolVars, dmVars>>
BusCallbackReturns ==
    /\ \E e \in Emitters, threw \in BOOLEAN : callbackReturns(e, threw)
    /\ UNCHANGED <<cacheVars, poolVars, dmVars>>
BusWrapperCancel ==
    /\ \E e \in Emitters : wrapperCancel(e)
    /\ UNCHANGED <<cacheVars, poolVars, dmVars>>
BusWrapperErase ==
    /\ \E e \in Emitters : wrapperErase(e)
    /\ UNCHANGED <<cacheVars, poolVars, dmVars>>
BusUnsubscribeCancel ==
    /\ \E id \in SubscriptionIds : unsubscribeCancel(id)
    /\ UNCHANGED <<cacheVars, poolVars, dmVars>>
BusUnsubscribeErase ==
    /\ \E id \in SubscriptionIds : unsubscribeErase(id)
    /\ UNCHANGED <<cacheVars, poolVars, dmVars>>

NextBus ==
    \/ BusSubscribe
    \/ BusOnce
    \/ BusEmit
    \/ BusEmitCall
    \/ BusCallbackReturns
    \/ BusWrapperCancel
    \/ BusWrapperErase
    \/ BusUnsubscribeCancel
    \/ BusUnsubscribeErase

InitSpecBus ==
    InitCache /\ InitPool /\ InitDM /\ retryCount = 0 /\ InitEventBus

SpecBus == InitSpecBus /\ [][NextBus]_vars

\* SpecPoolLive: SpecPool in which every thread that can take a step
\* eventually takes one, and a worker that finds the mutex free again and
\* again eventually gets it.  Submitting, destroying the pool and spurious
\* wake-ups are not forced.
SpecPoolLive ==
    /\ InitSpecPool
    /\ [][NextPool]_vars
    /\ SF_vars(PoolWorkerWait)
    /\ WF_vars(PoolWorkerBegin)
    /\ WF_vars(PoolJobRun)
    /\ WF_vars(PoolWorkerDecrement)
    /\ WF_vars(PoolWorkerNotifyIdle)
    /\ WF_vars(PoolWaitAllBlock)
    /\ WF_vars(PoolWaitAllWake)

(***************************************************************************)
(* The statements of the specification.                                    *)
(***************************************************************************)

\* C1: after any call to CacheManager::add() has returned, whatever the size
\* of the file and whatever calls came before, currentSize <= maxSize.
C1_AddKeepsSizeWithinMax ==
    lastCacheOp.op = "add" => m_currentSize <= m_maxSize

\* C2: whenever both queues are empty and the active-job counter is zero,
\* every accepted job has finished; so waitAll() has not returned while a job
\* submitted before the call is dequeued-but-not-started or running.
C2_IdleMeansFinished ==
    /\ isIdle => \A j \in 1..nextJob : jobState[j] = "done"
    /\ waiterPc = "returned" => \A j \in waitSnapshot : jobState[j] = "done"

\* C3: a thread blocked in waitAll() eventually returns, once the jobs end
\* and no more are submitted, whatever the interleaving of a worker's
\* decrement-and-notify with the waiter's predicate check.
C3_WaitAllReturns == (waiterPc = "blocked") ~> (waiterPc = "returned")

\* Every task added so far has finished, and at least one was downloaded.
AllTasksFinished ==
    /\ \A id \in 1..m_nextTaskId : taskPc[id] \in {"done", "served"}
    /\ \E id \in 1..m_nextTaskId : taskPc[id] = "done"

\* C4: once non-cached tasks were added and every one of them has finished,
\* a call to waitForAll() returns instead of blocking.
C4_WaitForAllReturns ==
    [][(AllTasksFinished /\ dmWaiterPc = "none" /\ dmWaiterPc' # "none")
           => dmWaiterPc' = "returned"]_vars

\* C5: cancelDownload(id) on a task that was accepted and that no worker has
\* begun cancels it: no transfer is ever attempted for it.
C5_CancelUnstartedNeverTransfers ==
    \A id \in Tasks : hist[id].cancelUnstarted => hist[id].requests = 0

\* C6: once cancelDownload(id) has returned true for an executing task, the
\* cancellation flag the executor reads for that task is set.
C6_CancelSetsExecutorFlag ==
    \A id \in Tasks : hist[id].cancelTrue => cancelled[id]

\* C7: after cancelAll() returned, no task that was added and not yet started
\* at that time ever begins a transfer.
C7_CancelAllStopsUnstarted ==
    \A id \in Tasks : hist[id].cancelAllUnstarted => hist[id].requests = 0

\* C8: addDownload of a task whose hash is in the cache, with a non-null
\* completion callback, has invoked the callback exactly once, with success,
\* when it returns.
C8_CacheHitCallsBack ==
    \A id \in Tasks :
        (taskPc[id] = "served" /\ task[id].hasCallback)
            => (hist[id].callbacks = 1 /\ hist[id].reported = "success")

\* A step of addDownload for a task whose hash the cache holds and whose copy
\* to the destination succeeded.
AddDownloadCacheHit ==
    /\ m_nextTaskId' = m_nextTaskId + 1
    /\ task'[m_nextTaskId'].sha1 # NoHash
    /\ has(task'[m_nextTaskId'].sha1)
    /\ lastCacheOp' = [op |-> "copyTo", hash |-> task'[m_nextTaskId'].sha1,
                       ok |-> TRUE]

\* C9: addDownload of a task whose hash is in the cache and whose copy
\* succeeds submits no job to the pool, adds the task to neither the pending
\* queue nor the progress map, and leaves the total-task counter unchanged.
C9_CacheHitEnqueuesNothing ==
    [][AddDownloadCacheHit =>
          /\ nextJob' = nextJob
          /\ m_tasks' = m_tasks
          /\ m_priorityTasks' = m_priorityTasks
          /\ m_queue' = m_queue
          /\ m_taskProgress' = m_taskProgress
          /\ m_totalTasks' = m_totalTasks]_vars

C9_Witness ==
    \E id \in Tasks :
        /\ taskPc[id] = "served"
        /\ lastCacheOp = [op |-> "copyTo", hash |-> task[id].sha1, ok |-> TRUE]
        /\ id = m_nextTaskId
        /\ nextJob > 0

\* C10: a task that is never cancelled and whose every attempt fails gets
\* exactly retryCount + 1 attempts (retryCount >= 0), then is reported failed
\* with a non-empty error, and gets no attempt after that.
C10_ExactlyRetryCountPlusOneAttempts ==
    \A id \in Tasks :
        /\ (taskPc[id] \in {"finish", "callback", "done"} /\ ~success[id])
              => (hist[id].attempts = retryCount + 1 /\ error[id] # "")
        /\ (taskPc[id] = "done" /\ ~success[id] /\ task[id].hasCallback)
              => hist[id].reported = "failure"

C10_Witness ==
    \E id \in Tasks :
        /\ taskPc[id] = "done"
        /\ ~success[id]
        /\ retryCount = MaxRetryCount
        /\ hist[id].attempts = MaxRetryCount + 1
        /\ hist[id].reported = "failure"

\* An attempt of task id ends on a hash that differs from the declared one.
ChecksumMismatchStep(id) ==
    /\ taskPc[id] \in {"transfer", "streaming"}
    /\ taskPc'[id] = "loop"
    /\ error'[id] = "Checksum mismatch"

\* C11: an attempt that ends with status 200 and a wrong hash is treated like
\* a failed transfer: the destination file is removed before the next
\* attempt, the attempt counts toward the retryCount + 1 attempts, and the
\* cache registers nothing for it.
C11_MismatchIsAFailedAttempt ==
    /\ [][\A id \in Tasks :
            ChecksumMismatchStep(id) =>
                /\ ~destination'[id]
                /\ attempt'[id] = attempt[id] + 1
                /\ UNCHANGED <<m_entries, m_currentSize, cacheFiles, indexFile>>]_vars
    /\ [](\A id \in Tasks :
            /\ hist[id].attempts <= retryCount + 1
            /\ (taskPc[id] = "done" /\ ~success[id])
                  => hist[id].attempts = retryCount + 1)

C11_Witness ==
    \E id \in Tasks :
        /\ taskPc[id] = "done"
        /\ ~success[id]
        /\ error[id] = "Checksum mismatch"
        /\ ~destination[id]
        /\ retryCount = MaxRetryCount
        /\ hist[id].attempts = MaxRetryCount + 1
        /\ ~has(task[id].sha1)

\* The entries of e carry pairwise distinct lastAccess values.
DistinctLastAccess(e) ==
    \A g, h \in DOMAIN e : g # h => e[g].lastAccess # e[h].lastAccess

\* A step of add() or setMaxSize() that evicted at least one entry.
EvictingStep ==
    /\ lastCacheOp'.op \in {"add", "setMaxSize"}
    /\ lastCacheOp'.evicted # <<>>
    /\ \A i \in DOMAIN lastCacheOp'.evicted :
          lastCacheOp'.evicted[i].hash \in DOMAIN m_entries

\* The hashes evicted before the i-th eviction of the step.
EvictedBefore(i) == {lastCacheOp'.evicted[j].hash : j \in 1..(i - 1)}

\* C12: every entry an eviction (from add or setMaxSize) removes has the
\* smallest lastAccess of all entries present at that moment, when the
\* entries' lastAccess values are pairwise distinct.
C12_EvictionTakesOldest ==
    [][(EvictingStep /\ DistinctLastAccess(m_entries)) =>
          \A i \in DOMAIN lastCacheOp'.evicted :
             \A g \in (DOMAIN m_entries) \ EvictedBefore(i) :
                g # lastCacheOp'.evicted[i].hash =>
                   m_entries[lastCacheOp'.evicted[i].hash].lastAccess
                      < m_entries[g].lastAccess]_vars

C12_Witness ==
    /\ lastCacheOp.op \in {"add", "setMaxSize"}
    /\ Len(lastCacheOp.evicted) = 1
    /\ \E h \in DOMAIN m_entries :
          /\ h # lastCacheOp.hash
          /\ h # lastCacheOp.evicted[1].hash
          /\ m_entries[h].lastAccess > lastCacheOp.evicted[1].lastAccess

\* The total size of the first n entries of the eviction order ev.
RECURSIVE EvictedSize(_, _)
EvictedSize(ev, n) == IF n = 0 THEN 0 ELSE ev[n].size + EvictedSize(ev, n - 1)

\* The cache holds two entries of size sz with distinct lastAccess and is
\* exactly full with them: items A and B were added to an empty cache with
\* maxSize = 2 x itemSize.
TwoItemsFill(sz) ==
    /\ m_maxSize = 2 * sz
    /\ m_currentSize = 2 * sz
    /\ Cardinality(DOMAIN m_entries) = 2
    /\ \A h \in DOMAIN m_entries : m_entries[h].size = sz
    /\ DistinctLastAccess(m_entries)

\* C13: add() evicts nothing when currentSize + size <= maxSize, and else
\* evicts an entry only while the item does not fit yet.  With
\* maxSize = 2 x itemSize, adding a third equal-sized item C after A and B
\* evicts exactly A and leaves B and C, two entries.
C13_AddEvictsOnlyWhatIsNeeded ==
    [][lastCacheOp'.op = "add" =>
          LET ev == lastCacheOp'.evicted
              sz == lastCacheOp'.size
          IN  /\ (m_currentSize + sz <= m_maxSize) => ev = <<>>
              /\ \A i \in DOMAIN ev :
                    m_currentSize - EvictedSize(ev, i - 1) + sz > m_maxSize
              /\ (/\ TwoItemsFill(sz)
                  /\ lastCacheOp'.ok
                  /\ lastCacheOp'.hash \notin DOMAIN m_entries)
                    => /\ Len(ev) = 1
                       /\ \A h \in DOMAIN m_entries :
                             ev[1].lastAccess <= m_entries[h].lastAccess
                       /\ DOMAIN m_entries' =
                             ((DOMAIN m_entries) \ {ev[1].hash})
                                \cup {lastCacheOp'.hash}
                       /\ Cardinality(DOMAIN m_entries') = 2]_vars

C13_Witness ==
    /\ lastCacheOp.op = "add"
    /\ lastCacheOp.ok
    /\ Len(lastCacheOp.evicted) = 1
    /\ m_maxSize = 2 * lastCacheOp.size
    /\ lastCacheOp.evicted[1].size = lastCacheOp.size
    /\ Cardinality(DOMAIN m_entries) = 2
    /\ m_currentSize = m_maxSize
    /\ \A h \in DOMAIN m_entries :
          /\ m_entries[h].size = lastCacheOp.size
          /\ m_entries[h].lastAccess > lastCacheOp.evicted[1].lastAccess

\* C14: once m_stop is set, every submit and submitPriority call fails at
\* once with an error and leaves both queues as they were, so no job is
\* accepted (and none can run) after the stop began.
C14_SubmitAfterStopFails ==
    /\ [][m_stop =>
            /\ nextJob' = nextJob
            /\ Len(m_tasks') <= Len(m_tasks)
            /\ m_priorityTasks' \subseteq m_priorityTasks
            /\ submitResult' \in {submitResult, "runtime_error"}]_vars
    /\ [][(submitResult' = "runtime_error" /\ submitResult # "runtime_error") =>
            /\ m_stop
            /\ UNCHANGED <<m_tasks, m_priorityTasks, jobState, nextJob>>]_vars

C14_Witness ==
    /\ m_stop
    /\ submitResult = "runtime_error"
    /\ nextJob > 0
    /\ nextJob < MaxJobs

\* Worker w takes a job off a queue in this step.
Dequeues(w) == workerPc[w] = "idle" /\ workerPc'[w] = "dequeued"

\* C15: a worker never takes a FIFO job while the priority queue holds a
\* job: the priority queue is drained before any FIFO job is taken.
C15_PriorityQueueDrainedFirst ==
    [][\A w \in Workers :
          (Dequeues(w) /\ jobKind[workerTask'[w]].queue = "fifo")
              => m_priorityTasks = {}]_vars

C15_Witness ==
    \E j, k \in 1..nextJob :
        /\ j < k
        /\ jobKind[j].queue = "fifo"
        /\ jobKind[k].queue = "priority"
        /\ jobState[j] = "queued"
        /\ jobState[k] = "done"
        /\ \E w \in Workers : workerPc[w] = "idle"

\* C16: the job a worker takes off the priority queue has the largest
\* priority of all jobs in that queue at that moment.
C16_HighestPriorityTaken ==
    [][\A w \in Workers :
          (Dequeues(w) /\ jobKind[workerTask'[w]].queue = "priority")
              => \A e \in m_priorityTasks :
                    e.priority <= jobKind[workerTask'[w]].priority]_vars

C16_Witness ==
    \E j, k \in 1..nextJob :
        /\ j < k
        /\ jobKind[j].queue = "priority"
        /\ jobKind[k].queue = "priority"
        /\ jobKind[j].priority < jobKind[k].priority
        /\ jobState[j] = "queued"
        /\ jobState[k] \in {"taken", "running", "done"}

\* The number of threads of the coordinator's pool.
PoolSize == Cardinality({w \in Workers : workerPc[w] # "unborn"})

\* The task of job j has not entered processDownload yet.
NotBegun(j) == taskPc[jobTask[j]] = "queued"

C18_JobExceptionIsContained ==
    /\ m_activeJobs = Cardinality({w \in Workers : workerPc[w] \in {"running", "ran"}})
    /\ \A w \in Workers : workerPc[w] \in
          {"idle", "blocked", "dequeued", "running", "ran", "decremented", "exited"}
    /\ lastGet # "exception"

\* The join of ~ThreadPool() has ended: every worker has left workerLoop().
AllWorkersExited == \A w \in Workers : workerPc[w] = "exited"

AllJobsExecuted == \A j \in 1..nextJob : jobState[j] = "done"

\* C19: every job terminating, once the destructor has set the stop flag it
\* eventually returns with every worker exited, and by then every job that
\* was accepted has been executed: no worker stays blocked on the queue
\* condition and no queued job is dropped.
C19_ShutdownJoinsAndDrains ==
    /\ m_stop ~> (AllWorkersExited /\ AllJobsExecuted)
    /\ [](m_stop => \A w \in Workers : workerPc[w] # "blocked")
    /\ [](AllWorkersExited => (QueuesEmpty /\ AllJobsExecuted))

\* The stop flag is set while one job is running and another is queued.
C19_Witness ==
    /\ m_stop
    /\ \E j \in 1..nextJob : jobState[j] = "queued"
    /\ \E w \in Workers : workerPc[w] = "running"

\* The execution of task id ended because its closure read a set
\* cancellation flag: at the entry of processDownload or in executeDownload.
CancelObserved(id) ==
    /\ cancelled[id]
    /\ taskPc[id] \in {"dropped", "callback", "done"}

\* C20: a task whose execution ended because its cancellation flag was
\* observed has status Cancelled, and neither the progress value nor the
\* callback arguments of a failed task.
C20_CancelledIsNotFailed ==
    \A id \in Tasks : CancelObserved(id) =>
        /\ task[id].status = "Cancelled"
        /\ id \in DOMAIN m_taskProgress => m_taskProgress[id] # -100
        /\ hist[id].reported # "failure"

\* C21: the completion callback of a task is invoked at most once; once it
\* was invoked the task gets no further transfer attempt and its recorded
\* progress value never changes again.
C21_TerminalOutcomeIsFinal ==
    [][\A id \in Tasks :
          /\ hist'[id].callbacks <= 1
          /\ hist[id].callbacks >= 1 =>
                /\ hist'[id].attempts = hist[id].attempts
                /\ hist'[id].requests = hist[id].requests
                /\ getProgress(id)' = getProgress(id)]_vars

\* One task was reported failed after its attempts, and the other is in a
\* transfer afterwards.
C21_Witness ==
    \E id, other \in Tasks :
        /\ taskPc[id] = "done"
        /\ hist[id].callbacks = 1
        /\ hist[id].attempts > 0
        /\ getProgress(id) = -100
        /\ taskPc[other] \in {"transfer", "streaming"}

\* C22: while the pause flag is set and the manager is running, no task
\* begins a transfer attempt; stated here for the retry attempts of a task
\* already in flight (a task that failed at least one attempt).
C22_NoAttemptWhilePaused ==
    [][(m_paused /\ m_running) =>
          \A id \in Tasks :
              attempt[id] > 0 => hist'[id].attempts = hist[id].attempts]_vars

\* C23: when add, get, remove, clear, setMaxSize or runMaintenance returns
\* after changing the entry set or an entry's size or access count, the
\* persisted index holds exactly the in-memory entries with their size and
\* access count.
C23_IndexPersistedAfterMutation ==
    [][(/\ lastCacheOp'.op \in {"add", "get", "remove", "clear", "setMaxSize",
                                "runMaintenance"}
        /\ saveIndex(m_entries') # saveIndex(m_entries))
          => indexFile' = saveIndex(m_entries')]_vars

\* C24: in every state reached by initialize (also called again), add (also
\* of a hash already present), get (also when the backing file is missing),
\* remove, clear, setMaxSize and runMaintenance, currentSize is the sum of
\* the sizes of the recorded entries.
C24_CurrentSizeIsSumOfEntries == m_currentSize = SumSizes(m_entries)

\* C25: after setMaxSize(newMax) returns, newMax being smaller than the
\* currentSize before the call, currentSize <= newMax or the store is empty,
\* and every entry it removed was, when removed, one of the least recently
\* used entries present.
C25_SetMaxSizeEvictsUntilCompliant ==
    [][(lastCacheOp'.op = "setMaxSize" /\ m_maxSize' < m_currentSize) =>
          LET ev == lastCacheOp'.evicted
          IN  /\ m_currentSize' <= m_maxSize' \/ DOMAIN m_entries' = {}
              /\ \A i \in DOMAIN ev :
                    /\ ev[i].hash \in DOMAIN m_entries
                    /\ \A g \in (DOMAIN m_entries) \ EvictedBefore(i) :
                          m_entries[ev[i].hash].lastAccess
                             <= m_entries[g].lastAccess
              /\ DOMAIN m_entries' =
                    (DOMAIN m_entries) \ {ev[i].hash : i \in DOMAIN ev}]_vars

\* setMaxSize has evicted two entries, the older one first, and kept a
\* third.
C25_Witness ==
    /\ lastCacheOp.op = "setMaxSize"
    /\ Len(lastCacheOp.evicted) = 2
    /\ lastCacheOp.evicted[1].lastAccess < lastCacheOp.evicted[2].lastAccess
    /\ DOMAIN m_entries # {}
    /\ m_currentSize <= m_maxSize

\* C26: shutdown() followed by initialize() of a fresh CacheManager on the
\* same directory restores the same hashes with the same sizes and access
\* counts, currentSize being the sum of those sizes, and gives every
\* restored entry lastAccess = load time.
C26_RestartRestoresIndexNotRecency ==
    (lastCacheOp.op = "initialize" /\ lastCacheOp.fresh) =>
        /\ DOMAIN m_entries = DOMAIN lastCacheOp.old
        /\ \A h \in DOMAIN m_entries :
              /\ m_entries[h].size = lastCacheOp.old[h].size
              /\ m_entries[h].accessCount = lastCacheOp.old[h].accessCount
              /\ m_entries[h].lastAccess = now
        /\ m_currentSize = SumSizes(m_entries)

\* Two entries with distinct lastAccess, one of them read twice, have been
\* restored by a fresh instance.
C26_Witness ==
    /\ lastCacheOp.op = "initialize"
    /\ lastCacheOp.fresh
    /\ \E g, h \in DOMAIN lastCacheOp.old :
          /\ lastCacheOp.old[g].lastAccess < lastCacheOp.old[h].lastAccess
          /\ lastCacheOp.old[h].accessCount = 2
          /\ m_entries[g].lastAccess = m_entries[h].lastAccess

\* Task id, which declares a hash, went through the transfer executor and
\* ended successfully.
DownloadedWithHash(id) ==
    /\ task[id].sha1 # NoHash
    /\ success[id]
    /\ taskPc[id] \in {"finish", "callback", "done"}

\* C27: after a task declaring hash h completed successfully through the
\* transfer executor the cache holds an entry for h (nothing evicts or
\* removes it here), and a later addDownload of a task declaring h is
\* served from the cache without a pool submission.
C27_SuccessfulDownloadIsCached ==
    /\ [](\A id \in Tasks : DownloadedWithHash(id) => has(task[id].sha1))
    /\ [][\A id \in Tasks :
            (/\ DownloadedWithHash(id)
             /\ m_nextTaskId' = m_nextTaskId + 1
             /\ task'[m_nextTaskId'].sha1 = task[id].sha1)
               => (taskPc'[m_nextTaskId'] = "served" /\ nextJob' = nextJob)]_vars

\* The tasks whose transfer is executing.
Transferring == {id \in Tasks : taskPc[id] \in {"transfer", "streaming"}}

\* C28: the number of transfers executing concurrently never exceeds the
\* configured maximum, also after setMaxConcurrent lowered it; stated here
\* for the moments a transfer begins.
C28_TransfersWithinMaxConcurrent ==
    [][\A id \in Tasks :
          (taskPc[id] = "try" /\ taskPc'[id] = "transfer")
             => Cardinality(Transferring') <= m_maxConcurrent']_vars

\* Thread t is about to take a mutex another thread holds.
WaitsFor(t, u) ==
    /\ lockPc[t].done < Len(lockPc[t].ops)
    /\ LET o == lockPc[t].ops[lockPc[t].done + 1]
       IN  o.op = "lock" /\ mutexOwner[o.mutex] = u

\* C29: no thread ever holds the coordinator's mutex and the cache's mutex
\* at the same time, in any interleaving of addDownload, processDownload
\* with its progress callback, cancelDownload, cancelAll and waitForAll; and
\* no two threads wait for each other's mutex.
C29_NeverBothMutexes ==
    /\ \A t \in Threads :
          ~(mutexOwner["m_mutex"] = t /\ mutexOwner["cacheMutex"] = t)
    /\ \A t, u \in Threads : ~(t # u /\ WaitsFor(t, u) /\ WaitsFor(u, t))

\* A worker registers its file with the cache while a caller is inside the
\* coordinator's critical section, and another caller waits for m_mutex.
C29_Witness ==
    /\ mutexOwner["cacheMutex"] = "worker1"
    /\ mutexOwner["m_mutex"] = "caller"
    /\ WaitsFor("controller", "caller")

\* A worker has begun executing task id, or the task has reached its
\* terminal outcome.
BegunOrTerminal(id) ==
    taskPc[id] \in {"loop", "backoff", "try", "transfer", "streaming",
                    "aborting", "finish", "callback", "done"}

\* C30: a task is in the pending queue only from addDownload until its
\* worker begins executing it: an active or finished task is not in the
\* queue and getPendingCount() does not count it.
C30_PendingOnlyUntilBegun ==
    /\ \A id \in Tasks : BegunOrTerminal(id) => id \notin m_queue
    /\ getPendingCount <= Cardinality({id \in Tasks : ~BegunOrTerminal(id)
                                                     /\ taskPc[id] # "none"})

\* The entry h is present and every other entry, of which there is at least
\* one, has a strictly smaller lastAccess.
StrictlyMostRecent(e, h) ==
    /\ h \in DOMAIN e
    /\ DOMAIN e # {h}
    /\ \A g \in (DOMAIN e) \ {h} : e[g].lastAccess < e[h].lastAccess

\* C31: a successful get(h) gives h the time of the call as lastAccess, so
\* that no entry is more recently used; and when that reading is later than
\* every other entry's lastAccess (A and B added, then get(A)), an add that
\* follows and evicts exactly one entry evicts another entry than h, and h
\* is still present after it.
C31_GetMakesMostRecentlyUsed ==
    /\ [][(lastCacheOp'.op = "get" /\ lastCacheOp'.ok) =>
             LET h == lastCacheOp'.hash
             IN  /\ h \in DOMAIN m_entries'
                 /\ m_entries'[h].lastAccess = now'
                 /\ \A g \in DOMAIN m_entries' :
                       m_entries'[g].lastAccess <= m_entries'[h].lastAccess]_vars
    /\ [][(/\ lastCacheOp.op = "get" /\ lastCacheOp.ok
           /\ StrictlyMostRecent(m_entries, lastCacheOp.hash)
           /\ lastCacheOp'.op = "add"
           /\ Len(lastCacheOp'.evicted) = 1) =>
             /\ lastCacheOp'.evicted[1].hash # lastCacheOp.hash
             /\ lastCacheOp.hash \in DOMAIN m_entries']_vars

\* An add has evicted exactly one entry and kept an entry that was read
\* (accessCount 2) after the evicted one was last used.
C31_Witness ==
    /\ lastCacheOp.op = "add" /\ lastCacheOp.ok
    /\ Len(lastCacheOp.evicted) = 1
    /\ \E h \in DOMAIN m_entries :
          /\ h # lastCacheOp.hash
          /\ m_entries[h].accessCount = 2
          /\ m_entries[h].lastAccess > lastCacheOp.evicted[1].lastAccess
          /\ lastCacheOp.evicted[1].lastAccess > 0

\* C34: setMaxSize(newMax) evicts an entry only if currentSize > newMax
\* held immediately before that eviction.
C34_SetMaxSizeEvictsOnlyWhileOver ==
    [][lastCacheOp'.op = "setMaxSize" =>
          \A i \in DOMAIN lastCacheOp'.evicted :
             m_currentSize - EvictedSize(lastCacheOp'.evicted, i - 1)
                > m_maxSize']_vars

\* C35: an add() that returns failure leaves the set of entries and
\* currentSize as they were before the call.
C35_FailedAddChangesNothing ==
    [][(lastCacheOp'.op = "add" /\ ~lastCacheOp'.ok) =>
          /\ m_entries' = m_entries
          /\ m_currentSize' = m_currentSize]_vars

\* C32: no network request of a retry (attempt k >= 1) is issued for a
\* task whose cancellation flag was set by a cancelDownload() that found
\* the task active, whether the flag was set before or during the backoff
\* sleep that precedes the attempt.
C32_NoRequestOnceCancelled ==
    [][\A id \in Tasks :
          (hist'[id].requests > hist[id].requests /\ attempt[id] >= 1) =>
              ~hist[id].cancelTrue]_vars

C36_AcceptedTaskIsReported ==
    \A id \in Tasks :
        (taskPc[id] \in {"dropped", "done"} /\ task[id].hasCallback
            /\ ~cancelled[id]) =>
                hist[id].callbacks >= 1

\* C37: once shutdown() has set the coordinator to not-running, no task
\* issues a network request.
C37_NoTransferAfterShutdown ==
    [][~m_running =>
          \A id \in Tasks : hist'[id].requests = hist[id].requests]_vars

\* C38: completedTasks <= totalTasks in every reachable state.
C38_CompletedWithinTotal == m_completedTasks <= m_totalTasks

\* A step of addDownload for a task whose hash the cache holds and whose copy
\* to the destination failed.
AddDownloadCopyFailed ==
    /\ m_nextTaskId' = m_nextTaskId + 1
    /\ task'[m_nextTaskId'].sha1 # NoHash
    /\ has(task'[m_nextTaskId'].sha1)
    /\ lastCacheOp' = [op |-> "copyTo", hash |-> task'[m_nextTaskId'].sha1,
                       ok |-> FALSE]

\* C39: addDownload of a task whose hash is in the cache but whose copy to
\* the destination fails takes the normal path: the task is put in the
\* pending queue and the progress map, counted in the total-task counter
\* and submitted to the pool exactly once, and its completion callback is
\* not invoked by the call.
C39_FailedCacheCopyFallsBack ==
    [][AddDownloadCopyFailed =>
          LET id == m_nextTaskId'
          IN  /\ id \in m_queue' /\ id \notin m_queue
              /\ id \in DOMAIN m_taskProgress' /\ m_taskProgress'[id] = 0
              /\ m_totalTasks' = m_totalTasks + 1
              /\ nextJob' = nextJob + 1
              /\ jobTask'[nextJob'] = id
              /\ m_tasks' = Append(m_tasks, nextJob')
              /\ m_priorityTasks' = m_priorityTasks
              /\ taskPc'[id] = "queued"
              /\ hist'[id].callbacks = 0]_vars

\* addDownload has just queued a task whose hash the cache held and whose
\* copy failed.
C39_Witness ==
    \E id \in Tasks :
        /\ id = m_nextTaskId
        /\ taskPc[id] = "queued"
        /\ task[id].sha1 # NoHash
        /\ lastCacheOp = [op |-> "copyTo", hash |-> task[id].sha1, ok |-> FALSE]
        /\ id \in m_queue
        /\ m_tasks # <<>> /\ jobTask[m_tasks[Len(m_tasks)]] = id
        /\ hist[id].callbacks = 0

\* C40: a callback registered with once() is invoked at most once, however
\* many emit() calls are made, from different threads or from inside the
\* callback.
C40_OnceInvokedAtMostOnce ==
    \A id \in SubscriptionIds :
        subscription[id].kind = "once" => calls[id] <= 1
====
